---- MODULE Spec2Model ----
(***************************************************************************)
(* Rule engine of tsilva/.github: the rule registry (discover_rules) and   *)
(* the RuleRunner (check -> fix -> verify per repository, in parallel      *)
(* across repositories), with the rules the runner drives.                 *)
(***************************************************************************)
EXTENDS Integers, Sequences, FiniteSets, TLC

VARIABLES
    \* ---- rule registry (rules/_registry.py) ----
    regPc,        \* "import" | "collect" | "done": position inside discover_rules()
    registered,   \* the Rule subclasses that exist once the rule modules are imported
    visited,      \* classes the `for cls in _all_subclasses(Rule)` loop has visited
    instances,    \* the dict id -> class built by that loop
    ordered,      \* the list discover_rules() returns (ids, with their class)
    \* ---- one RuleRunner.run(dry_run, json_output) (engine.py) ----
    dry_run, json_output,   \* the arguments of run()
    rules,        \* self.rules: what discover_rules() returned to __init__
    runPc,        \* position of the main thread inside run()
    localDirs,    \* names of the git clones under repos_dir
    non_archived, \* set(org_metadata)
    archived_names, \* the set handed to Repo.discover, or None (given = FALSE)
    to_clone, cloned, clone_errors,
    repos,        \* list returned by Repo.discover (names, sorted)
    queue,        \* work queue of the repository pool: repositories not yet taken
    worker,       \* worker thread -> repository it is processing, or "idle"
    pc,           \* repository -> position of _process_repo
    idx,          \* repository -> index of the rule being evaluated
    pending,      \* repository -> CheckResult / FixOutcome the rule loop holds
    rr,           \* repository -> RepoResult.results being built
    repo_results, \* list(pool.map(_process_repo, repos))
    exitCode,     \* value run() returned, or "none"
    \* ---- the world the run acts on ----
    fs,           \* repository -> its working tree, index and git status
    cache,        \* repository -> Repo._cache
    remoteDesc,   \* repository -> description on GitHub
    env,          \* gh authentication, user-level settings
    fetched,      \* repositories on which `git fetch --all` was run
    faults,       \* failures of external calls injected so far
    \* ---- history ----
    fs0, remoteDesc0, localDirs0,  \* the world before the run
    log,          \* repository -> the calls _process_repo made, with outcomes
    \* ---- one call of Repo.discover (repo.py) ----
    dCall,        \* its arguments: filter_pattern, skip_archived, archived_names
    dDisk,        \* repos_dir: whether it is a directory, and what each child is
    dGh,          \* what `gh repo view` answers about archived repositories
    dPc,          \* position inside discover()
    dTodo,        \* children the for loop has not visited yet, in sorted order
    dRepos,       \* the list `repos` being built (names of the paths)
    dQueried,     \* children whose Repo.is_archived was evaluated (a `gh repo view` each)
    \* ---- one rule driven on one Repo object (rules/*.py) ----
    uPc,          \* "idle" | "ready"
    uEnv,         \* rule under test, gh authentication, the shipped gitignore.global
    uWorld,       \* the repository's tree, a sibling repository, ~/.claude, GitHub
    uRepo,        \* the Repo object: _cache and _prefetch
    uLog,         \* the calls made on the rule and the Repo, with outcomes
    \* ---- the manifest rules evaluated on one Repo (rules/python.py, rules/cli.py) ----
    mPc,          \* "idle" | "ready"
    pyproject,    \* pyproject.toml of the repository
    mCache,       \* Repo._cache: is_cli, has_version
    mResults,     \* RepoResult.results of the manifest rules evaluated so far
    \* ---- the three thread pools of one run (engine.py) ----
    poolPc,       \* position of the main thread: which `with` block it is in
    poolInput,    \* dry_run, len(to_clone), len(repos), len(wf_repos)
    poolSize,     \* pool -> max_workers it was constructed with
    poolQueued,   \* pool -> work items submitted and not yet started
    poolRunning,  \* pool -> work items a worker thread is executing
    \* ---- GITIGNORE's fix on the lines of one .gitignore (gitguard/rules/gitignore.py) ----
    gPc,          \* "idle" | "ready" | "done"
    gitignore,    \* the file: whether it exists, its lines
    gAuthored,    \* the user's lines before the managed header and after the managed rules
    gGlobal,      \* what _load_gitignore_global() returns
    gOutcome,     \* the call made and the FixOutcome it returned
    \* ---- WORKFLOWS_PASSING on one Repo (rules/workflows_passing.py) ----
    wPc,          \* "idle" | "ready" | "done"
    wAuth,        \* gh_authenticated()
    wRemote,      \* workflow name -> conclusion of its latest completed run, on GitHub
    wPrefetch,    \* repo._prefetch: whether "workflow_conclusions" is set, and its value
    wResult,      \* the CheckResult, and whether check called get_workflow_conclusions
    \* ---- the ProgressBar of one run and the workers that report to it (gitguard/progress.py) ----
    pbPc,         \* "idle" | "run"
    pbInput,      \* len(repos), len(rules)
    pbTotal,      \* ProgressBar.total
    pbStep,       \* ProgressBar.step
    pbLock,       \* ProgressBar._lock: the repository whose worker holds it, or 0
    pbTask,       \* repository -> position of its _process_repo, rule index, value read from step
    pbCalls,      \* update calls that have returned or raised
    pbPhased,     \* set_phase calls that have returned or raised
    \* ---- what run() printed ----
    stdout,       \* the JSON documents written to standard output, in order
    \* ---- the clone phase of one run (engine.py, _clone_one) ----
    cPc,          \* "idle" | "clone" | "ended"
    cDry,         \* dry_run
    cToClone,     \* to_clone, sorted
    cTask,        \* name -> position of its _clone_one
    cCloned,      \* the list `cloned`
    cErrors,      \* the list `clone_errors`
    cLock,        \* errors_lock: the name whose worker holds it, or ""
    cDisk,        \* names for which git clone created a clone under repos_dir
    \* ---- one repository taken through the rule loop as a dry run and as a real run ----
    sPc,          \* "idle" | "run"
    sRules,       \* self.rules
    sEnv,         \* gh authentication, user-level settings
    sStart,       \* the working tree both runs start from
    sRun          \* mode -> tree, remote description, RepoResult.results, rule index, faults met

regVars == <<regPc, registered, visited, instances, ordered>>
runVars == <<dry_run, json_output, rules, runPc, localDirs, non_archived,
             archived_names, to_clone, cloned, clone_errors, repos, queue,
             worker, pc, idx, pending, rr, repo_results, exitCode>>
worldVars == <<fs, cache, remoteDesc, env, fetched, faults>>
histVars == <<fs0, remoteDesc0, localDirs0, log>>
discVars == <<dCall, dDisk, dGh, dPc, dTodo, dRepos, dQueried>>
ruleVars == <<uPc, uEnv, uWorld, uRepo, uLog>>
manifestVars == <<mPc, pyproject, mCache, mResults>>
poolVars == <<poolPc, poolInput, poolSize, poolQueued, poolRunning>>
gitignoreVars == <<gPc, gitignore, gAuthored, gGlobal, gOutcome>>
workflowVars == <<wPc, wAuth, wRemote, wPrefetch, wResult>>
progressVars == <<pbPc, pbInput, pbTotal, pbStep, pbLock, pbTask, pbCalls, pbPhased>>
stdoutVars == <<stdout>>
cloneVars == <<cPc, cDry, cToClone, cTask, cCloned, cErrors, cLock, cDisk>>
soloVars == <<sPc, sRules, sEnv, sStart, sRun>>
auxVars == <<manifestVars, poolVars, gitignoreVars, workflowVars, progressVars, stdoutVars, cloneVars, soloVars>>
notWorkflow == <<regVars, runVars, worldVars, histVars, discVars, ruleVars, manifestVars,
                 poolVars, gitignoreVars,
            progressVars, stdoutVars,
            cloneVars,
            soloVars>>
notManifest == <<regVars, runVars, worldVars, histVars, discVars, ruleVars, poolVars,
                 gitignoreVars, workflowVars,
            progressVars, stdoutVars,
            cloneVars,
            soloVars>>
notPool == <<regVars, runVars, worldVars, histVars, discVars, ruleVars, manifestVars,
             gitignoreVars, workflowVars,
            progressVars, stdoutVars,
            cloneVars,
            soloVars>>
notGitignore == <<regVars, runVars, worldVars, histVars, discVars, ruleVars, manifestVars,
                  poolVars, workflowVars,
            progressVars, stdoutVars,
            cloneVars,
            soloVars>>
notProgress == <<regVars, runVars, worldVars, histVars, discVars, ruleVars,
            manifestVars, poolVars, gitignoreVars, workflowVars, stdoutVars,
            cloneVars,
            soloVars>>
\* what Render leaves alone besides the runner's own variables
notStdout == <<regVars, worldVars, histVars, discVars, ruleVars, manifestVars, poolVars,
               gitignoreVars, workflowVars, progressVars,
            cloneVars,
            soloVars>>
notClone == <<regVars, runVars, worldVars, histVars, discVars, ruleVars,
            manifestVars, poolVars, gitignoreVars, workflowVars, progressVars, stdoutVars,
            soloVars>>
notSolo == <<regVars, runVars, worldVars, histVars, discVars, ruleVars,
            manifestVars, poolVars, gitignoreVars, workflowVars, progressVars, stdoutVars, cloneVars>>
unitVars == <<discVars, ruleVars, auxVars>>

(***************************************************************************)
(* Bounds                                                                  *)
(***************************************************************************)
MaxRegistered == 3     \* how many rule classes one registry run registers
MaxFaults == 1         \* how many external calls fail or raise in one run
MaxItems == 9          \* how many work items one thread pool is handed
MaxLines == 2          \* how many lines the user wrote above, and below, the managed block
MaxBarRepos == 2       \* how many repositories report to one progress bar
MaxBarRules == 2       \* how many rules are selected while the progress bar runs

(***************************************************************************)
(* rules/_registry.py                                                      *)
(***************************************************************************)
_BAD_CANONICAL_ORDER ==
    << "DEFAULT_BRANCH", "LICENSE_EXISTS", "LOGO_EXISTS", "CLAUDE_MD_EXISTS",
       "PYTHON_PYPROJECT", "README_CURRENT", "README_EXISTS", "README_LICENSE",
       "README_LOGO", "README_CI_BADGE", "TRACKED_IGNORED", "GITIGNORE",
       "CLAUDE_SANDBOX", "SETTINGS_CLEAN", "SETTINGS_DANGEROUS",
       "PYTHON_MIN_VERSION", "CLI_BUILD_BACKEND", "CLI_VERSION",
       "CLI_RELEASE_WORKFLOW", "CLI_PYPI_READY", "DEPENDABOT_EXISTS",
       "PRECOMMIT_GITLEAKS", "PENDING_COMMITS", "STALE_BRANCHES", "CI_WORKFLOW",
       "WORKFLOWS_PASSING", "RELEASE_WORKFLOW", "PII_SCAN", "REPO_DESCRIPTION" >>

_CANONICAL_ORDER ==
    << "DEFAULT_BRANCH", "LICENSE_EXISTS", "LOGO_EXISTS", "GITIGNORE",
       "CLAUDE_MD_EXISTS", "PYTHON_PYPROJECT", "README_EXISTS", "README_CURRENT",
       "README_LICENSE", "README_LOGO", "README_CI_BADGE", "TRACKED_IGNORED",
       "CLAUDE_SANDBOX", "SETTINGS_DANGEROUS", "SETTINGS_CLEAN",
       "PYTHON_MIN_VERSION", "CLI_BUILD_BACKEND", "CLI_VERSION",
       "CLI_RELEASE_WORKFLOW", "CLI_PYPI_READY", "DEPENDABOT_EXISTS",
       "PRECOMMIT_GITLEAKS", "PENDING_COMMITS", "STALE_BRANCHES", "CI_WORKFLOW",
       "WORKFLOWS_PASSING", "RELEASE_WORKFLOW", "PII_SCAN", "REPO_DESCRIPTION" >>

\* The Rule subclasses of the source, as "module.Class" -> the class's `id`
\* attribute ("" when the class sets none, as _WorkflowSearchBase).
RuleClasses ==
    [ name : {"default_branch.DefaultBranchRule"},        id : {"DEFAULT_BRANCH"} ] \cup
    [ name : {"file_exists.LicenseExistsRule",
              "license_exists.LicenseExistsRule"},        id : {"LICENSE_EXISTS"} ] \cup
    [ name : {"logo_exists.LogoExistsRule"},              id : {"LOGO_EXISTS"} ] \cup
    [ name : {"gitignore.GitignoreRule"},                 id : {"GITIGNORE"} ] \cup
    [ name : {"gitignore_exists.GitignoreExistsRule"},    id : {"GITIGNORE_EXISTS"} ] \cup
    [ name : {"gitignore_complete.GitignoreCompleteRule"}, id : {"GITIGNORE_COMPLETE"} ] \cup
    [ name : {"file_exists.ClaudeMdExistsRule",
              "claude_md_exists.ClaudeMdExistsRule"},     id : {"CLAUDE_MD_EXISTS"} ] \cup
    [ name : {"python.PythonPyprojectRule",
              "python_pyproject.PythonPyprojectRule"},    id : {"PYTHON_PYPROJECT"} ] \cup
    [ name : {"python.PythonMinVersionRule",
              "python_min_version.PythonMinVersionRule"}, id : {"PYTHON_MIN_VERSION"} ] \cup
    [ name : {"readme_exists.ReadmeExistsRule"},          id : {"README_EXISTS"} ] \cup
    [ name : {"readme_current.ReadmeCurrentRule"},        id : {"README_CURRENT"} ] \cup
    [ name : {"readme_content.ReadmeLicenseRule"},        id : {"README_LICENSE"} ] \cup
    [ name : {"readme_logo.ReadmeLogoRule"},              id : {"README_LOGO"} ] \cup
    [ name : {"readme_content.ReadmeCiBadgeRule",
              "readme_ci_badge.ReadmeCiBadgeRule"},       id : {"README_CI_BADGE"} ] \cup
    [ name : {"tracked_ignored.TrackedIgnoredRule"},      id : {"TRACKED_IGNORED"} ] \cup
    [ name : {"claude_sandbox.ClaudeSandboxRule"},        id : {"CLAUDE_SANDBOX"} ] \cup
    [ name : {"settings.SettingsDangerousRule",
              "settings_dangerous.SettingsDangerousRule"}, id : {"SETTINGS_DANGEROUS"} ] \cup
    [ name : {"settings.SettingsCleanRule"},              id : {"SETTINGS_CLEAN"} ] \cup
    [ name : {"ci_passing.CiPassingRule"},                id : {"CI_PASSING"} ] \cup
    [ name : {"repo_description.RepoDescriptionRule"},    id : {"REPO_DESCRIPTION"} ] \cup
    [ name : {"workflow_search._WorkflowSearchBase"},     id : {""} ]

\* The code points of a rule id: Python compares str keys code point by code point.
IdChars(id) ==
    CASE id = "CI_PASSING"         -> <<67, 73, 95, 80, 65, 83, 83, 73, 78, 71>>
      [] id = "GITIGNORE_COMPLETE" -> <<71, 73, 84, 73, 71, 78, 79, 82, 69, 95, 67, 79, 77, 80, 76, 69, 84, 69>>
      [] id = "GITIGNORE_EXISTS"   -> <<71, 73, 84, 73, 71, 78, 79, 82, 69, 95, 69, 88, 73, 83, 84, 83>>
      [] OTHER                     -> <<>>

RECURSIVE StrLess(_, _)
\* a < b for two str values, given as code point sequences
StrLess(a, b) ==
    IF b = <<>> THEN FALSE
    ELSE IF a = <<>> THEN TRUE
    ELSE IF Head(a) # Head(b) THEN Head(a) < Head(b)
    ELSE StrLess(Tail(a), Tail(b))

RECURSIVE SortedIds(_)
\* sorted(instances.values(), key=lambda r: r.id), as the list of ids
SortedIds(S) ==
    IF S = {} THEN <<>>
    ELSE LET m == CHOOSE x \in S : \A y \in S \ {x} : StrLess(IdChars(x), IdChars(y))
         IN  <<m>> \o SortedIds(S \ {m})

InCanonical(id) == \E i \in 1..Len(_CANONICAL_ORDER) : _CANONICAL_ORDER[i] = id

\* Without the trailing loop over the leftover instances.
OrderRulesNoExtras(inst) ==
    LET canon == SelectSeq(_CANONICAL_ORDER, LAMBDA id : id \in DOMAIN inst)
    IN  [ i \in 1..Len(canon) |-> [id |-> canon[i], cls |-> inst[canon[i]]] ]

\* discover_rules(), lines 65-74: the canonical ids that have an instance, in
\* canonical order (popped from the dict), then what is left, sorted by id.
OrderRules(inst) ==
    LET canon  == SelectSeq(_CANONICAL_ORDER, LAMBDA id : id \in DOMAIN inst)
        extras == SortedIds({id \in DOMAIN inst : ~InCanonical(id)})
        ids    == canon \o extras
    IN  [ i \in 1..Len(ids) |-> [id |-> ids[i], cls |-> inst[ids[i]]] ]

RECURSIVE CollectInstances(_)
\* discover_rules(), lines 59-63, for one iteration order of the subclass set:
\* classes without an id are skipped, a later class replaces an earlier one
\* that has the same id.
CollectInstances(order) ==
    IF order = <<>> THEN << >>
    ELSE LET n    == Len(order)
             rest == CollectInstances(SubSeq(order, 1, n - 1))
             c    == order[n]
         IN  IF c.id = "" THEN rest
             ELSE [ id \in (DOMAIN rest) \cup {c.id} |->
                        IF id = c.id THEN c.name ELSE rest[id] ]

\* importing a rule module defines its Rule subclasses
ImportRule(c) ==
    /\ regPc = "import"
    /\ c \notin registered
    /\ Cardinality(registered) < MaxRegistered
    /\ registered' = registered \cup {c}
    /\ UNCHANGED <<regPc, visited, instances, ordered>>
    /\ UNCHANGED <<runVars, worldVars, histVars, unitVars>>

\* _all_subclasses(Rule) returns a set: the loop below visits it in hash order
AllSubclasses ==
    /\ regPc = "import"
    /\ regPc' = "collect"
    /\ UNCHANGED <<registered, visited, instances, ordered>>
    /\ UNCHANGED <<runVars, worldVars, histVars, unitVars>>

\* one iteration of `for cls in _all_subclasses(Rule)`
CollectOne(c) ==
    /\ regPc = "collect"
    /\ c \in registered \ visited
    /\ visited' = visited \cup {c}
    /\ instances' =
         IF c.id = "" THEN instances
         ELSE [ id \in (DOMAIN instances) \cup {c.id} |->
                    IF id = c.id THEN c.name ELSE instances[id] ]
    /\ UNCHANGED <<regPc, registered, ordered>>
    /\ UNCHANGED <<runVars, worldVars, histVars, unitVars>>

\* every Rule subclass the modules of tsilva_maintain/rules define, with its
\* id (workflow_search builds three classes with type())
PackageClasses ==
    { [name |-> "ci_passing.CiPassingRule", id |-> "CI_PASSING"],
      [name |-> "ci_workflow.CiWorkflowRule", id |-> "CI_WORKFLOW"],
      [name |-> "claude_md_exists.ClaudeMdExistsRule", id |-> "CLAUDE_MD_EXISTS"],
      [name |-> "claude_sandbox.ClaudeSandboxRule", id |-> "CLAUDE_SANDBOX"],
      [name |-> "cli.CliBuildBackendRule", id |-> "CLI_BUILD_BACKEND"],
      [name |-> "cli.CliVersionRule", id |-> "CLI_VERSION"],
      [name |-> "cli.CliReleaseWorkflowRule", id |-> "CLI_RELEASE_WORKFLOW"],
      [name |-> "cli.CliPypiReadyRule", id |-> "CLI_PYPI_READY"],
      [name |-> "default_branch.DefaultBranchRule", id |-> "DEFAULT_BRANCH"],
      [name |-> "dependabot_exists.DependabotExistsRule", id |-> "DEPENDABOT_EXISTS"],
      [name |-> "file_exists.LicenseExistsRule", id |-> "LICENSE_EXISTS"],
      [name |-> "file_exists.ClaudeMdExistsRule", id |-> "CLAUDE_MD_EXISTS"],
      [name |-> "gitignore_complete.GitignoreCompleteRule", id |-> "GITIGNORE_COMPLETE"],
      [name |-> "gitignore_exists.GitignoreExistsRule", id |-> "GITIGNORE_EXISTS"],
      [name |-> "license_exists.LicenseExistsRule", id |-> "LICENSE_EXISTS"],
      [name |-> "pending_commits.PendingCommitsRule", id |-> "PENDING_COMMITS"],
      [name |-> "pii_scan.PiiScanRule", id |-> "PII_SCAN"],
      [name |-> "precommit_gitleaks.PrecommitGitleaksRule", id |-> "PRECOMMIT_GITLEAKS"],
      [name |-> "python.PythonPyprojectRule", id |-> "PYTHON_PYPROJECT"],
      [name |-> "python.PythonMinVersionRule", id |-> "PYTHON_MIN_VERSION"],
      [name |-> "python_min_version.PythonMinVersionRule", id |-> "PYTHON_MIN_VERSION"],
      [name |-> "python_pyproject.PythonPyprojectRule", id |-> "PYTHON_PYPROJECT"],
      [name |-> "readme_ci_badge.ReadmeCiBadgeRule", id |-> "README_CI_BADGE"],
      [name |-> "readme_content.ReadmeLicenseRule", id |-> "README_LICENSE"],
      [name |-> "readme_content.ReadmeCiBadgeRule", id |-> "README_CI_BADGE"],
      [name |-> "readme_logo.ReadmeLogoRule", id |-> "README_LOGO"],
      [name |-> "release_workflow.ReleaseWorkflowRule", id |-> "RELEASE_WORKFLOW"],
      [name |-> "repo_description.RepoDescriptionRule", id |-> "REPO_DESCRIPTION"],
      [name |-> "settings.SettingsDangerousRule", id |-> "SETTINGS_DANGEROUS"],
      [name |-> "settings.SettingsCleanRule", id |-> "SETTINGS_CLEAN"],
      [name |-> "settings_dangerous.SettingsDangerousRule", id |-> "SETTINGS_DANGEROUS"],
      [name |-> "stale_branches.StaleBranchesRule", id |-> "STALE_BRANCHES"],
      [name |-> "tracked_ignored.TrackedIgnoredRule", id |-> "TRACKED_IGNORED"],
      [name |-> "workflow_search._WorkflowSearchBase", id |-> ""],
      [name |-> "workflow_search.CiWorkflowRule", id |-> "CI_WORKFLOW"],
      [name |-> "workflow_search.ReleaseWorkflowRule", id |-> "RELEASE_WORKFLOW"],
      [name |-> "workflow_search.PiiScanRule", id |-> "PII_SCAN"],
      [name |-> "workflows_passing.WorkflowsPassingRule", id |-> "WORKFLOWS_PASSING"] }

\* the ids of PackageClasses, in the order their modules are imported
PackageIds ==
    << "CI_PASSING", "CI_WORKFLOW", "CLAUDE_MD_EXISTS", "CLAUDE_SANDBOX",
       "CLI_BUILD_BACKEND", "CLI_VERSION", "CLI_RELEASE_WORKFLOW",
       "CLI_PYPI_READY", "DEFAULT_BRANCH", "DEPENDABOT_EXISTS", "LICENSE_EXISTS",
       "GITIGNORE_COMPLETE", "GITIGNORE_EXISTS", "PENDING_COMMITS", "PII_SCAN",
       "PRECOMMIT_GITLEAKS", "PYTHON_PYPROJECT", "PYTHON_MIN_VERSION",
       "README_CI_BADGE", "README_LICENSE", "README_LOGO", "RELEASE_WORKFLOW",
       "REPO_DESCRIPTION", "SETTINGS_DANGEROUS", "SETTINGS_CLEAN",
       "STALE_BRANCHES", "TRACKED_IGNORED", "", "WORKFLOWS_PASSING" >>

IdRank(id) == CHOOSE i \in 1..Len(PackageIds) : PackageIds[i] = id

\* lines 52-56: every module of the package is imported.  ci_passing imports
\* get_last_run_conclusion from tsilva_maintain.github; where that name is
\* missing the import raises and discover_rules() returns nothing.
ImportPackage ==
    /\ regPc = "import"
    /\ registered = {}
    /\ \E importable \in BOOLEAN :
         IF importable THEN registered' = PackageClasses /\ UNCHANGED regPc
         ELSE regPc' = "raised" /\ UNCHANGED registered
    /\ UNCHANGED <<visited, instances, ordered>>
    /\ UNCHANGED <<runVars, worldVars, histVars, unitVars>>

\* one iteration of `for cls in _all_subclasses(Rule)` over the whole
\* package.  The ids in the result do not depend on the visiting order, so
\* only the order among the classes that share an id is left open.
CollectPackageClass(c) ==
    /\ \A d \in registered \ visited : IdRank(d.id) >= IdRank(c.id)
    /\ CollectOne(c)

\* the rest of discover_rules(): order the instances and return
ReturnOrdered ==
    /\ regPc = "collect"
    /\ visited = registered
    /\ ordered' = OrderRules(instances)
    /\ regPc' = "done"
    /\ UNCHANGED <<registered, visited, instances>>
    /\ UNCHANGED <<runVars, worldVars, histVars, unitVars>>

(***************************************************************************)
(* rules/__init__.py: the types every rule shares                          *)
(***************************************************************************)
CheckResult(status, message) == [status |-> status, message |-> message]
FixOutcome(status, message) == [status |-> status, message |-> message]

\* a base class that reports nothing left to do
BaseFixAlreadyOk(id) == FixOutcome("already_ok", "")

\* Rule.fix of the base class: what a rule without a fix of its own answers
BaseFix(id) == FixOutcome("manual", "No auto-fix for " \o id)

\* A fix's answer, the working tree it leaves and the remote description it leaves
FixReturn(out, st, desc) == [out |-> out, st |-> st, desc |-> desc, raised |-> FALSE]
FixRaise(st, desc) ==
    [out |-> FixOutcome("failed", ""), st |-> st, desc |-> desc, raised |-> TRUE]

\* CheckResult, or the exception the check let escape
CheckReturn(status, message) ==
    [status |-> status, message |-> message, raised |-> FALSE]
CheckRaise == [status |-> "RAISE", message |-> "", raised |-> TRUE]

(***************************************************************************)
(* The rules the runner drives.  A working tree `st` is a record:           *)
(*   files   - paths present (is_file)                                      *)
(*   licRef  - README.md matches the license-reference pattern              *)
(*   badge   - README.md matches the CI badge pattern                       *)
(*   tagline - extract_tagline(README.md), "" when none                     *)
(*   allow   - permissions.allow of .claude/settings.local.json             *)
(*   tracked - tracked files that match .gitignore                          *)
(*   dirty   - `git status --porcelain` is not empty                        *)
(***************************************************************************)
DANGEROUS_PATTERNS ==
    {"Bash(*:*)", "Read(/*)", "Write(/*)", "Edit(/*)", "Bash(rm:*)", "Bash(sudo:*)", "Skill(*)"}

SETTINGS_LOCAL == ".claude/settings.local.json"

\* rules/_helpers.py
has_license_file(st) ==
    \E name \in {"LICENSE", "LICENSE.md", "LICENSE.txt"} : name \in st.files

\* rules/file_exists.py
LicenseExistsCheck(st) ==
    IF has_license_file(st) THEN CheckReturn("PASS", "")
    ELSE CheckReturn("FAIL", "No LICENSE file found")

\* a fix that forgets the dry_run flag
LicenseExistsFixNoDryRun(st, desc, dry, io) ==
    IF has_license_file(st) THEN FixReturn(FixOutcome("already_ok", ""), st, desc)
    ELSE IF io = "fail" THEN FixReturn(FixOutcome("failed", "write failed"), st, desc)
    ELSE FixReturn(FixOutcome("fixed", "Created LICENSE (MIT)"),
                   [st EXCEPT !.files = @ \cup {"LICENSE"}, !.dirty = TRUE], desc)

LicenseExistsFix(st, desc, dry, io) ==
    IF has_license_file(st) THEN FixReturn(FixOutcome("already_ok", ""), st, desc)
    ELSE IF dry THEN FixReturn(FixOutcome("fixed", "Would create LICENSE"), st, desc)
    ELSE IF io = "fail" THEN FixReturn(FixOutcome("failed", "write failed"), st, desc)
    ELSE FixReturn(FixOutcome("fixed", "Created LICENSE (MIT)"),
                   [st EXCEPT !.files = @ \cup {"LICENSE"}, !.dirty = TRUE], desc)

\* rules/readme_exists.py
ReadmeExistsCheck(st) ==
    IF "README.md" \in st.files THEN CheckReturn("PASS", "")
    ELSE CheckReturn("FAIL", "README.md not found")

\* rules/readme_content.py
ReadmeLicenseCheck(st) ==
    IF "README.md" \notin st.files THEN CheckReturn("FAIL", "README.md does not exist")
    ELSE IF st.licRef THEN CheckReturn("PASS", "")
    ELSE CheckReturn("FAIL", "README missing license reference")

ReadmeLicenseFix(st, desc, dry, io) ==
    IF "README.md" \notin st.files THEN FixReturn(FixOutcome("skipped", "No README.md"), st, desc)
    ELSE IF ~has_license_file(st) THEN FixReturn(FixOutcome("skipped", "No LICENSE file"), st, desc)
    ELSE IF st.licRef THEN FixReturn(FixOutcome("already_ok", ""), st, desc)
    ELSE IF dry THEN FixReturn(FixOutcome("fixed", "Would append license section"), st, desc)
    ELSE IF io = "fail" THEN FixReturn(FixOutcome("failed", "write failed"), st, desc)
    ELSE FixReturn(FixOutcome("fixed", "Appended license section"),
                   [st EXCEPT !.licRef = TRUE, !.dirty = TRUE], desc)

\* repo.py: Repo._detect_ci_workflow; ci.yml stands for a workflow file whose
\* text matches the pattern
_detect_ci_workflow(st) == ".github/workflows/ci.yml" \in st.files

\* rules/readme_content.py: ReadmeCiBadgeRule; read_text is not guarded
ReadmeCiBadgeCheck(st, io) ==
    IF "README.md" \notin st.files THEN CheckReturn("FAIL", "README.md does not exist")
    ELSE IF io = "raise" THEN CheckRaise
    ELSE IF st.badge THEN CheckReturn("PASS", "")
    ELSE CheckReturn("FAIL", "README missing CI badge")

\* git.py: tracked_ignored_files; a non-zero exit reads as "no files", a
\* timeout of run_git is not caught
tracked_ignored_files(st, io) == IF io = "ok" THEN st.tracked ELSE {}

\* rules/tracked_ignored.py
TrackedIgnoredCheck(st, io) ==
    IF io = "raise" THEN CheckRaise
    ELSE IF tracked_ignored_files(st, io) = {} THEN CheckReturn("PASS", "")
    ELSE CheckReturn("FAIL", "tracked file(s) match gitignore")

\* A fix that runs `git rm` without --cached: the files leave the disk too.
TrackedIgnoredFixDeleting(st, desc, dry, io) ==
    IF st.tracked = {} \/ io = "list_fail"
    THEN FixReturn(FixOutcome("already_ok", ""), st, desc)
    ELSE IF dry THEN FixReturn(FixOutcome("fixed", "Would untrack file(s)"), st, desc)
    ELSE IF io = "raise" THEN FixRaise(st, desc)
    ELSE IF io = "fail" THEN FixReturn(FixOutcome("failed", "git rm failed"), st, desc)
    ELSE FixReturn(FixOutcome("fixed", "Untracked file(s)"),
                   [st EXCEPT !.tracked = {}, !.files = @ \ st.tracked, !.dirty = TRUE], desc)

\* io: "list_fail" = the listing exits non-zero, "fail" = `git rm --cached`
\* exits non-zero, "raise" = `git rm --cached` times out
TrackedIgnoredFix(st, desc, dry, io) ==
    IF tracked_ignored_files(st, IF io = "list_fail" THEN "fail" ELSE "ok") = {}
    THEN FixReturn(FixOutcome("already_ok", ""), st, desc)
    ELSE IF dry THEN FixReturn(FixOutcome("fixed", "Would untrack file(s)"), st, desc)
    ELSE IF io = "raise" THEN FixRaise(st, desc)
    ELSE IF io = "fail" THEN FixReturn(FixOutcome("failed", "git rm failed"), st, desc)
    ELSE FixReturn(FixOutcome("fixed", "Untracked file(s)"),
                   [st EXCEPT !.tracked = {}, !.dirty = TRUE], desc)

\* settings_optimizer.py: SettingsOptimizer.load_settings
load_settings(globalAllow, st) == globalAllow # {} \/ st.allow # {}

\* settings_optimizer.py: analyze() then check("dangerous", grouped)
optimizer_check_dangerous(globalAllow, st) ==
    (globalAllow \cup st.allow) \cap DANGEROUS_PATTERNS = {}

\* rules/settings.py: _check_settings(repo, "dangerous", ...)
SettingsDangerousCheck(st, globalAllow) ==
    IF SETTINGS_LOCAL \notin st.files THEN CheckReturn("SKIP", "")
    ELSE IF ~load_settings(globalAllow, st) THEN CheckReturn("SKIP", "")
    ELSE IF optimizer_check_dangerous(globalAllow, st) THEN CheckReturn("PASS", "")
    ELSE CheckReturn("FAIL", "Dangerous permission patterns detected")

\* rules/settings.py: SettingsDangerousRule.fix; write_text is not guarded
SettingsDangerousFix(st, desc, dry, io) ==
    LET cleaned == st.allow \ DANGEROUS_PATTERNS IN
    IF SETTINGS_LOCAL \notin st.files
    THEN FixReturn(FixOutcome("skipped", "No settings.local.json"), st, desc)
    ELSE IF cleaned = st.allow THEN FixReturn(FixOutcome("already_ok", ""), st, desc)
    ELSE IF dry THEN FixReturn(FixOutcome("fixed", "Would remove dangerous patterns"), st, desc)
    ELSE IF io = "raise" THEN FixRaise(st, desc)
    ELSE FixReturn(FixOutcome("fixed", "Removed dangerous patterns"),
                   [st EXCEPT !.allow = cleaned, !.dirty = TRUE], desc)

\* git.py: status_porcelain; "" when git status exits non-zero
status_porcelain(st, io) == IF io = "fail" THEN FALSE ELSE st.dirty

\* rules/pending_commits.py; run_git lets a timeout escape.  The trees of
\* this model have no commits ahead of their upstream.
PendingCommitsCheck(st, io) ==
    IF io = "raise" THEN CheckRaise
    ELSE IF status_porcelain(st, io) THEN CheckReturn("FAIL", "uncommitted change(s)")
    ELSE CheckReturn("PASS", "")

\* rules/gitignore_exists.py
GitignoreExistsCheck(st) ==
    IF ".gitignore" \in st.files THEN CheckReturn("PASS", "")
    ELSE CheckReturn("FAIL", ".gitignore not found")

GitignoreExistsFix(st, desc, dry, io) ==
    IF ".gitignore" \in st.files THEN FixReturn(FixOutcome("already_ok", ""), st, desc)
    ELSE IF dry
    THEN FixReturn(FixOutcome("fixed", "Would create .gitignore with essential patterns"),
                   st, desc)
    ELSE IF io = "fail" THEN FixReturn(FixOutcome("failed", "write failed"), st, desc)
    ELSE FixReturn(FixOutcome("fixed", "Created .gitignore"),
                   [st EXCEPT !.files = @ \cup {".gitignore"}, !.dirty = TRUE], desc)

\* github.py: get_repo_description; a failing call reads as ""
get_repo_description(desc, io) == IF io = "get_fail" THEN "" ELSE desc

\* rules/repo_description.py
RepoDescriptionCheck(st, desc, ghAuth, io) ==
    IF ~ghAuth THEN CheckReturn("SKIP", "")
    ELSE IF "README.md" \notin st.files THEN CheckReturn("SKIP", "")
    ELSE IF st.tagline = "" THEN CheckReturn("SKIP", "")
    ELSE IF st.tagline = get_repo_description(desc, io) THEN CheckReturn("PASS", "")
    ELSE CheckReturn("FAIL", "Description mismatch (GitHub vs README tagline)")

\* io: "get_fail" = gh repo view fails, "fail" = gh repo edit fails
RepoDescriptionFix(st, desc, ghAuth, dry, io) ==
    IF ~ghAuth THEN FixReturn(FixOutcome("skipped", "gh not authenticated"), st, desc)
    ELSE IF "README.md" \notin st.files THEN FixReturn(FixOutcome("skipped", "No README.md"), st, desc)
    ELSE IF st.tagline = "" THEN FixReturn(FixOutcome("skipped", "No tagline found"), st, desc)
    ELSE IF st.tagline = get_repo_description(desc, io)
    THEN FixReturn(FixOutcome("already_ok", ""), st, desc)
    ELSE IF dry THEN FixReturn(FixOutcome("fixed", "Would update description"), st, desc)
    ELSE IF io = "fail" THEN FixReturn(FixOutcome("failed", "gh repo edit failed"), st, desc)
    ELSE FixReturn(FixOutcome("fixed", "Updated description"), st, st.tagline)

\* The outcomes of the external calls an operation of a rule makes, other
\* than "ok" (all calls succeed).
IoFaults(id, op) ==
    CASE id = "LICENSE_EXISTS" /\ op = "fix"       -> {"fail"}
      [] id = "README_LICENSE" /\ op = "fix"       -> {"fail"}
      [] id = "README_CI_BADGE" /\ op = "check"    -> {"raise"}
      [] id = "TRACKED_IGNORED" /\ op = "check"    -> {"fail", "raise"}
      [] id = "TRACKED_IGNORED" /\ op = "fix"      -> {"list_fail", "fail", "raise"}
      [] id = "SETTINGS_DANGEROUS" /\ op = "fix"   -> {"raise"}
      [] id = "REPO_DESCRIPTION" /\ op = "check"   -> {"get_fail"}
      [] id = "REPO_DESCRIPTION" /\ op = "fix"     -> {"get_fail", "fail"}
      [] id = "PENDING_COMMITS" /\ op = "check"    -> {"fail", "raise"}
      [] id = "GITIGNORE_EXISTS" /\ op = "fix"     -> {"fail"}
      [] OTHER                                     -> {}

\* rule.applies_to(repo); has_ci_workflow is read through Repo._cache
RuleAppliesTo(rule, st, ch) ==
    IF rule.id = "README_CI_BADGE"
    THEN (IF ch.has_ci_workflow = "unset" THEN _detect_ci_workflow(st)
          ELSE ch.has_ci_workflow = "yes")
    ELSE TRUE

\* what applies_to leaves in Repo._cache
CacheAfterAppliesTo(rule, st, ch) ==
    IF rule.id = "README_CI_BADGE" /\ ch.has_ci_workflow = "unset"
    THEN [ch EXCEPT !.has_ci_workflow = IF _detect_ci_workflow(st) THEN "yes" ELSE "no"]
    ELSE ch

\* rule.check(repo)
RuleCheck(rule, st, desc, e, io) ==
    CASE rule.id = "LICENSE_EXISTS"     -> LicenseExistsCheck(st)
      [] rule.id = "README_EXISTS"      -> ReadmeExistsCheck(st)
      [] rule.id = "README_LICENSE"     -> ReadmeLicenseCheck(st)
      [] rule.id = "README_CI_BADGE"    -> ReadmeCiBadgeCheck(st, io)
      [] rule.id = "TRACKED_IGNORED"    -> TrackedIgnoredCheck(st, io)
      [] rule.id = "SETTINGS_DANGEROUS" -> SettingsDangerousCheck(st, e.globalAllow)
      [] rule.id = "REPO_DESCRIPTION"   -> RepoDescriptionCheck(st, desc, e.ghAuth, io)
      [] rule.id = "PENDING_COMMITS"    -> PendingCommitsCheck(st, io)
      [] rule.id = "GITIGNORE_EXISTS"   -> GitignoreExistsCheck(st)

\* rule.fix(repo, dry_run=dry_run)
RuleFix(rule, st, desc, e, dry, io) ==
    CASE rule.id = "LICENSE_EXISTS"     -> LicenseExistsFix(st, desc, dry, io)
      [] rule.id = "README_LICENSE"     -> ReadmeLicenseFix(st, desc, dry, io)
      [] rule.id = "TRACKED_IGNORED"    -> TrackedIgnoredFix(st, desc, dry, io)
      [] rule.id = "SETTINGS_DANGEROUS" /\ rule.cls = "settings.SettingsDangerousRule"
                                        -> SettingsDangerousFix(st, desc, dry, io)
      [] rule.id = "REPO_DESCRIPTION"   -> RepoDescriptionFix(st, desc, e.ghAuth, dry, io)
      [] rule.id = "GITIGNORE_EXISTS"   -> GitignoreExistsFix(st, desc, dry, io)
      [] OTHER                          -> FixReturn(BaseFix(rule.id), st, desc)

(***************************************************************************)
(* The inputs of a run                                                     *)
(***************************************************************************)
\* directory names under repos_dir, in the order sorted() gives them
Names == <<"alpha", "beta">>
NameSet == {Names[i] : i \in 1..Len(Names)}

Tree(files, licRef, badge, tagline, allow, tracked, dirty) ==
    [files |-> files, licRef |-> licRef, badge |-> badge, tagline |-> tagline,
     allow |-> allow, tracked |-> tracked, dirty |-> dirty]

\* no clone under that name
NoTree == Tree({}, FALSE, FALSE, "", {}, {}, FALSE)
\* a freshly initialized repository holding only .gitkeep (tests/conftest.py, bare_repo)
BareRepo == Tree({".gitkeep"}, FALSE, FALSE, "", {}, {}, FALSE)
\* a well-configured repository (tests/conftest.py, tmp_repo), with a CI workflow
CompleteRepo ==
    Tree({"README.md", "LICENSE", SETTINGS_LOCAL, ".github/workflows/ci.yml"},
         TRUE, TRUE, "a tagline", {"Bash(ls:*)"}, {}, FALSE)
\* README without license section or badge, a tracked .env, uncommitted changes
UntidyRepo ==
    Tree({"README.md", ".env", ".github/workflows/ci.yml"},
         FALSE, FALSE, "a tagline", {}, {".env"}, TRUE)
\* LICENSE.md only, a dangerous permission in the project settings
DangerRepo ==
    Tree({"README.md", "LICENSE.md", SETTINGS_LOCAL},
         FALSE, FALSE, "a tagline", {"Bash(rm:*)", "Bash(ls:*)"}, {".env"}, FALSE)

RepoStates == {BareRepo, CompleteRepo, UntidyRepo, DangerRepo}
\* the working trees each clone starts from
StartStates(n) == IF n = "alpha" THEN RepoStates ELSE {UntidyRepo, DangerRepo}
\* what `gh repo clone` leaves on disk
ClonedStates == {BareRepo}

\* which clones exist locally and what the organization has on GitHub
Worlds ==
    { [local |-> {"alpha", "beta"}, live |-> {"alpha", "beta"}, archived |-> {}],
      [local |-> {"alpha"},         live |-> {"alpha", "beta"}, archived |-> {}],
      [local |-> {"alpha", "beta"}, live |-> {"alpha"},         archived |-> {"beta"}],
      [local |-> {"alpha", "beta"}, live |-> {"beta"},          archived |-> {}],
      [local |-> {},                live |-> {},                archived |-> {}] }

\* gh authentication and the user-level ~/.claude/settings.json
Envs ==
    { [ghAuth |-> TRUE,  globalAllow |-> {}],
      [ghAuth |-> TRUE,  globalAllow |-> {"Bash(rm:*)"}] }

\* the rule classes this run's package registers
RunnerClasses ==
    { c \in RuleClasses :
        c.name \in {"file_exists.LicenseExistsRule", "readme_exists.ReadmeExistsRule",
                    "readme_content.ReadmeLicenseRule", "readme_content.ReadmeCiBadgeRule",
                    "tracked_ignored.TrackedIgnoredRule", "settings.SettingsDangerousRule",
                    "settings_dangerous.SettingsDangerousRule",
                    "repo_description.RepoDescriptionRule"} }

\* the dicts the collecting loop of discover_rules() can end with, over all
\* iteration orders of the class set
PossibleInstances(classes) ==
    LET ids == {c.id : c \in classes} \ {""}
    IN  { f \in [ids -> {c.name : c \in classes}] :
            \A id \in ids : \E c \in classes : c.id = id /\ c.name = f[id] }

(***************************************************************************)
(* engine.py: records                                                      *)
(***************************************************************************)
RuleResult(rule_id, status, message) ==
    [rule_id |-> rule_id, status |-> status, message |-> message]

\* RepoResult.passed
RepoPassed(results) ==
    Cardinality({i \in 1..Len(results) : results[i].status \in {"pass", "skip"}})

\* RepoResult.fixed
RepoFixed(results) ==
    Cardinality({i \in 1..Len(results) : results[i].status = "fixed"})

\* RepoResult.manual without "fix_failed"
RepoManualNoFixFailed(results) ==
    SelectSeq(results, LAMBDA x : x.status \in {"manual", "failed"})

\* RepoResult.manual
RepoManual(results) ==
    SelectSeq(results, LAMBDA x : x.status \in {"manual", "failed", "fix_failed"})

\* RuleRunner._output_summary: its return value
_output_summary(results_list) ==
    LET needs_work ==
          Cardinality({i \in 1..Len(results_list) : RepoManual(results_list[i]) # <<>>})
    IN  IF needs_work > 0 THEN 1 ELSE 0

\* RuleRunner._output_json: total_failed and its return value
JsonTotalFailed(results_list) ==
    LET Failed(results) ==
          Cardinality({i \in 1..Len(results) :
                          results[i].status \notin {"pass", "skip", "fixed"}})
        RECURSIVE Sum(_)
        Sum(k) == IF k = 0 THEN 0 ELSE Failed(results_list[k]) + Sum(k - 1)
    IN  Sum(Len(results_list))

_output_json(results_list) == IF JsonTotalFailed(results_list) > 0 THEN 1 ELSE 0

\* lines 305-310: the status string of one check entry
JsonStatus(status) ==
    IF status \in {"pass", "skip", "fixed"}
    THEN (IF status # "fixed" THEN "passed" ELSE "fixed")
    ELSE "failed"

RECURSIVE SumSeq(_)
\* the sum of a list of ints
SumSeq(q) == IF q = <<>> THEN 0 ELSE Head(q) + SumSeq(Tail(q))

\* A rounding that drops the fraction.
PyRoundTruncates(num, den) == num \div den

\* round(num / den) of Python: to the nearest int, a tie going to the even one
PyRound(num, den) ==
    LET q == num \div den
        r == num % den
    IN  IF 2 * r < den THEN q
        ELSE IF 2 * r > den THEN q + 1
        ELSE IF q % 2 = 0 THEN q ELSE q + 1

\* lines 297-342: the report _output_json prints, without the clock and paths
JsonReport(names, results_list) ==
    LET Counted(results) ==
          Cardinality({i \in 1..Len(results) :
                          results[i].status \in {"pass", "skip", "fixed"}})
        total_checks == SumSeq([k \in 1..Len(results_list) |-> Len(results_list[k])])
        total_passed == SumSeq([k \in 1..Len(results_list) |-> Counted(results_list[k])])
        total_failed == JsonTotalFailed(results_list)
    IN  [repos_count |-> Len(results_list),
         repos |-> [k \in 1..Len(results_list) |->
                     [repo |-> names[k],
                      checks |-> [i \in 1..Len(results_list[k]) |->
                                    [check |-> results_list[k][i].rule_id,
                                     status |-> JsonStatus(results_list[k][i].status),
                                     message |-> results_list[k][i].message]],
                      summary |-> [passed |-> RepoPassed(results_list[k])
                                                + RepoFixed(results_list[k]),
                                   failed |-> Len(RepoManual(results_list[k]))]]],
         summary |-> [total_checks |-> total_checks,
                      passed |-> total_passed,
                      failed |-> total_failed,
                      pass_rate |-> IF total_checks > 0
                                    THEN PyRound(total_passed * 100, total_checks)
                                    ELSE 0]]

\* archived_names=None
NoArchivedNames == [given |-> FALSE, names |-> {}]

\* repo.py: Repo.discover(repos_dir, "", archived_names=archNames)
RepoDiscover(dirs, archNames, archivedOnRemote) ==
    SelectSeq(Names, LAMBDA n :
        /\ n \in dirs
        /\ IF archNames.given THEN n \notin archNames.names
           ELSE n \notin archivedOnRemote)

\* sorted(non_archived - all_local)
SortedMissing(nonArch, dirs) == SelectSeq(Names, LAMBDA n : n \in nonArch \ dirs)

MaxPoolWorkers == 8

NoPending == [check |-> CheckResult("", ""), fix |-> FixOutcome("", "")]
LogEntry(rule_id, op, out) == [rule |-> rule_id, op |-> op, out |-> out]

\* the io outcomes an action may draw: a fault only while the budget lasts
IoChoices(id, op) == {"ok"} \cup (IF faults < MaxFaults THEN IoFaults(id, op) ELSE {})

(***************************************************************************)
(* engine.py: RuleRunner.run, main thread                                  *)
(***************************************************************************)
Handled(n) ==
    \/ \E i \in 1..Len(cloned) : cloned[i] = n
    \/ \E i \in 1..Len(clone_errors) : clone_errors[i] = n

Remaining == SelectSeq(to_clone, LAMBDA n : ~Handled(n))

\* lines 93-111: org metadata, archived_names, to_clone
FetchOrgMetadata ==
    /\ runPc = "start"
    /\ \E io \in {"ok"} \cup (IF faults < MaxFaults /\ env.ghAuth /\ env.live # {}
                              THEN {"fail"} ELSE {}) :
         LET meta == IF env.ghAuth /\ io = "ok" THEN env.live ELSE {} IN
         /\ non_archived' = meta
         /\ archived_names' = IF meta # {} THEN [given |-> TRUE, names |-> localDirs \ meta]
                              ELSE NoArchivedNames
         /\ to_clone' = IF meta # {} THEN SortedMissing(meta, localDirs) ELSE <<>>
         /\ faults' = IF io = "ok" THEN faults ELSE faults + 1
    /\ runPc' = "clone"
    /\ UNCHANGED <<dry_run, json_output, rules, localDirs, cloned, clone_errors,
                   repos, queue, worker, pc, idx, pending, rr, repo_results, exitCode>>
    /\ UNCHANGED <<fs, cache, remoteDesc, env, fetched>>
    /\ UNCHANGED <<regVars, unitVars, histVars>>

\* lines 115-119: a dry run only names what it would clone
CloneDryRun ==
    /\ runPc = "clone"
    /\ dry_run
    /\ Remaining # <<>>
    /\ cloned' = Append(cloned, Head(Remaining))
    /\ UNCHANGED <<dry_run, json_output, rules, runPc, localDirs, non_archived,
                   archived_names, to_clone, clone_errors, repos, queue, worker,
                   pc, idx, pending, rr, repo_results, exitCode>>
    /\ UNCHANGED <<regVars, unitVars, worldVars, histVars>>

\* lines 123-140: _clone_one, run by the clone pool in any order
CloneOne(n) ==
    /\ runPc = "clone"
    /\ ~dry_run
    /\ \E i \in 1..Len(Remaining) : Remaining[i] = n
    /\ \E io \in {"ok"} \cup (IF faults < MaxFaults THEN {"fail", "raise"} ELSE {}) :
         /\ faults' = IF io = "ok" THEN faults ELSE faults + 1
         /\ IF io = "ok"
            THEN /\ \E t \in ClonedStates : fs' = [fs EXCEPT ![n] = t]
                 /\ localDirs' = localDirs \cup {n}
                 /\ cloned' = Append(cloned, n)
                 /\ UNCHANGED clone_errors
            ELSE /\ clone_errors' = Append(clone_errors, n)
                 /\ UNCHANGED <<fs, localDirs, cloned>>
    /\ UNCHANGED <<dry_run, json_output, rules, runPc, non_archived, archived_names,
                   to_clone, repos, queue, worker, pc, idx, pending, rr,
                   repo_results, exitCode>>
    /\ UNCHANGED <<cache, remoteDesc, env, fetched>>
    /\ UNCHANGED <<regVars, unitVars, histVars>>

\* lines 145-151 and 226-228: discovery, the early return, submitting the repositories
Discover ==
    /\ runPc = "clone"
    /\ Remaining = <<>>
    /\ LET found == RepoDiscover(localDirs, archived_names, env.archived) IN
       /\ repos' = found
       /\ IF found = <<>>
          THEN /\ runPc' = "returned"
               /\ exitCode' = 0
               /\ UNCHANGED <<queue, worker, pc>>
          ELSE /\ runPc' = "process"
               /\ queue' = found
               /\ worker' = [w \in 1..(IF Len(found) < MaxPoolWorkers THEN Len(found)
                                       ELSE MaxPoolWorkers) |-> "idle"]
               /\ pc' = [n \in NameSet |->
                           IF \E i \in 1..Len(found) : found[i] = n
                           THEN "queued" ELSE pc[n]]
               /\ UNCHANGED exitCode
    /\ UNCHANGED <<dry_run, json_output, rules, localDirs, non_archived, archived_names,
                   to_clone, cloned, clone_errors, idx, pending, rr, repo_results>>
    /\ UNCHANGED <<regVars, unitVars, worldVars, histVars>>

InRepos(n) == \E i \in 1..Len(repos) : repos[i] = n

\* The results with the last repository's first.
PoolMapReversed(items, results) ==
    [i \in 1..Len(items) |-> results[items[Len(items) + 1 - i]]]

\* Executor.map: the results come in the order of the items submitted
PoolMap(items, results) == [i \in 1..Len(items) |-> results[items[i]]]

\* line 228: list(pool.map(...)) when every future returned
GatherResults ==
    /\ runPc = "process"
    /\ \A i \in 1..Len(repos) : pc[repos[i]] = "done"
    /\ repo_results' = PoolMap(repos, rr)
    /\ runPc' = "render"
    /\ UNCHANGED <<dry_run, json_output, rules, localDirs, non_archived, archived_names,
                   to_clone, cloned, clone_errors, repos, queue, worker, pc, idx,
                   pending, rr, exitCode>>
    /\ UNCHANGED <<regVars, unitVars, worldVars, histVars>>

\* line 228: the result iterator re-raises the exception of the first future
\* that raised and cancels the futures not yet started
GatherRaises ==
    /\ runPc = "process"
    /\ \E i \in 1..Len(repos) :
         /\ pc[repos[i]] = "raised"
         /\ \A j \in 1..(i - 1) : pc[repos[j]] = "done"
    /\ runPc' = "aborting"
    /\ queue' = <<>>
    /\ pc' = [n \in NameSet |-> IF pc[n] = "queued" THEN "cancelled" ELSE pc[n]]
    /\ UNCHANGED <<dry_run, json_output, rules, localDirs, non_archived, archived_names,
                   to_clone, cloned, clone_errors, repos, worker, idx, pending, rr,
                   repo_results, exitCode>>
    /\ UNCHANGED <<regVars, unitVars, worldVars, histVars>>

\* line 227: leaving the `with` block waits for the running workers, then the
\* exception leaves run()
RunRaises ==
    /\ runPc = "aborting"
    /\ \A w \in DOMAIN worker : worker[w] = "idle"
    /\ runPc' = "raised"
    /\ UNCHANGED <<dry_run, json_output, rules, localDirs, non_archived, archived_names,
                   to_clone, cloned, clone_errors, repos, queue, worker, pc, idx,
                   pending, rr, repo_results, exitCode>>
    /\ UNCHANGED <<regVars, unitVars, worldVars, histVars>>

\* lines 235-238: render and return the exit code; _output_json prints the
\* report with print(json.dumps(report, indent=2)), _output_summary writes
\* to stderr only
Render ==
    /\ runPc = "render"
    /\ exitCode' = IF json_output THEN _output_json(repo_results)
                   ELSE _output_summary(repo_results)
    /\ stdout' = IF json_output THEN Append(stdout, JsonReport(repos, repo_results))
                 ELSE stdout
    /\ runPc' = "returned"
    /\ UNCHANGED <<dry_run, json_output, rules, localDirs, non_archived, archived_names,
                   to_clone, cloned, clone_errors, repos, queue, worker, pc, idx,
                   pending, rr, repo_results>>
    /\ UNCHANGED notStdout

(***************************************************************************)
(* engine.py: _process_repo, run by the workers of the repository pool     *)
(***************************************************************************)
mainVars == <<dry_run, json_output, rules, runPc, localDirs, non_archived,
              archived_names, to_clone, cloned, clone_errors, repos,
              repo_results, exitCode>>

Working == runPc \in {"process", "aborting"}

\* a worker that takes a repository leaves the queue without it
TakeFromQueueKeepsHead(q) == q

\* line 228: pool.map submits every repository once; a worker takes the head
TakeFromQueue(q) == Tail(q)

Released(r) == [w \in DOMAIN worker |-> IF worker[w] = r THEN "idle" ELSE worker[w]]

Logged(r, rule_id, op, out) == log' = [log EXCEPT ![r] = Append(@, LogEntry(rule_id, op, out))]

Spent(io) == faults' = IF io = "ok" THEN faults ELSE faults + 1

\* verify always counts as success
VerifyStatusAlwaysFixed(verify) == "fixed"

\* lines 210-213: the status after the re-check that follows a fix
VerifyStatus(verify) == IF verify.status = "PASS" THEN "fixed" ELSE "fix_failed"

\* SKIPPED is taken for "nothing to do"
FixStatusSkippedPasses(outcome) ==
    CASE outcome.status = "already_ok" -> "pass"
      [] outcome.status = "manual"     -> "manual"
      [] outcome.status = "skipped"    -> "pass"
      [] OTHER                         -> "failed"

\* lines 214-221: the status for a fix outcome other than FIXED
FixStatus(outcome) ==
    CASE outcome.status = "already_ok" -> "pass"
      [] outcome.status = "manual"     -> "manual"
      [] outcome.status = "skipped"    -> "manual"
      [] OTHER                         -> "failed"

\* line 204: a FIXED outcome is re-checked unless the run is a dry run
Verifies(dry) == ~dry

\* rr.results.append(RuleResult(rule.id, status, message)); continue / return rr
Recorded(r, status, message) ==
    LET last == idx[r] = Len(rules) IN
    /\ rr' = [rr EXCEPT ![r] = Append(@, RuleResult(rules[idx[r]].id, status, message))]
    /\ idx' = [idx EXCEPT ![r] = IF last THEN @ ELSE @ + 1]
    /\ pc' = [pc EXCEPT ![r] = IF last THEN "done" ELSE "apply"]
    /\ worker' = IF last THEN Released(r) ELSE worker
    /\ pending' = [pending EXCEPT ![r] = NoPending]

\* The INTERNAL result takes the place of the results gathered so far.
InternalAlone(r) ==
    /\ rr' = [rr EXCEPT ![r] = <<RuleResult("INTERNAL", "failed", "exception")>>]
    /\ pc' = [pc EXCEPT ![r] = "done"]
    /\ worker' = Released(r)
    /\ pending' = [pending EXCEPT ![r] = NoPending]
    /\ UNCHANGED idx

\* lines 222-224: except Exception -> one INTERNAL result, return rr
Internal(r) ==
    /\ rr' = [rr EXCEPT ![r] = Append(@, RuleResult("INTERNAL", "failed", "exception"))]
    /\ pc' = [pc EXCEPT ![r] = "done"]
    /\ worker' = Released(r)
    /\ pending' = [pending EXCEPT ![r] = NoPending]
    /\ UNCHANGED idx

\* the rule loop goes on to the next operation of the same rule
Held(r, next, held) ==
    /\ pc' = [pc EXCEPT ![r] = next]
    /\ pending' = [pending EXCEPT ![r] = held]
    /\ UNCHANGED <<rr, idx, worker>>

\* a worker thread takes the next repository; line 173.  The idle threads are
\* interchangeable: the lowest-numbered one takes it.
StartRepo(w) ==
    /\ runPc = "process"
    /\ worker[w] = "idle"
    /\ \A v \in DOMAIN worker : v < w => worker[v] # "idle"
    /\ queue # <<>>
    /\ LET r == Head(queue) IN
       /\ worker' = [worker EXCEPT ![w] = r]
       /\ pc' = [pc EXCEPT ![r] = IF dry_run THEN "apply" ELSE "probe"]
    /\ queue' = TakeFromQueue(queue)
    /\ UNCHANGED <<idx, pending, rr>>
    /\ UNCHANGED <<mainVars, regVars, unitVars, worldVars, histVars>>

\* Repo.is_dirty: the clone has uncommitted local changes.  The property is
\* read at engine.py:174 and defined in no file of the package; it is taken
\* here as `git status --porcelain` giving output.
is_dirty(st) == st.dirty

\* a fetch whatever the probe answered
AfterProbeAlwaysFetch(dirty) == "fetch"

\* line 174: `if not dry_run and not repo.is_dirty:` in a run that is no dry run
AfterProbe(dirty) == IF dirty THEN "apply" ELSE "fetch"

\* line 174: `repo.is_dirty`, evaluated outside both try blocks
ProbeDirty(r) ==
    /\ Working
    /\ pc[r] = "probe"
    /\ \E io \in {"ok"} \cup (IF faults < MaxFaults THEN {"raise"} ELSE {}) :
         /\ Spent(io)
         /\ IF io = "raise"
            THEN /\ pc' = [pc EXCEPT ![r] = "raised"]
                 /\ worker' = Released(r)
                 /\ Logged(r, "", "is_dirty", "raise")
            ELSE /\ pc' = [pc EXCEPT ![r] = AfterProbe(is_dirty(fs[r]))]
                 /\ UNCHANGED worker
                 /\ Logged(r, "", "is_dirty", IF is_dirty(fs[r]) THEN "True" ELSE "False")
    /\ UNCHANGED <<queue, idx, pending, rr>>
    /\ UNCHANGED <<fs, cache, remoteDesc, env, fetched>>
    /\ UNCHANGED <<mainVars, regVars, unitVars, fs0, remoteDesc0, localDirs0>>

\* lines 175-178: git.fetch_all, any exception swallowed
FetchAll(r) ==
    /\ Working
    /\ pc[r] = "fetch"
    /\ \E io \in {"ok"} \cup (IF faults < MaxFaults THEN {"raise"} ELSE {}) :
         /\ Spent(io)
         /\ Logged(r, "", "fetch_all", io)
    /\ fetched' = fetched \cup {r}
    /\ pc' = [pc EXCEPT ![r] = "apply"]
    /\ UNCHANGED <<queue, worker, idx, pending, rr>>
    /\ UNCHANGED <<fs, cache, remoteDesc, env>>
    /\ UNCHANGED <<mainVars, regVars, unitVars, fs0, remoteDesc0, localDirs0>>

\* lines 184-186: `if not rule.applies_to(repo): ... continue`, else go on to check
AppliesNextAlwaysCheck(applies) == "check"

AppliesNext(applies) == IF applies THEN "check" ELSE "skip"

\* lines 184-186: rule.applies_to(repo)
Apply(r) ==
    /\ Working
    /\ pc[r] = "apply"
    /\ LET rule == rules[idx[r]]
           applies == RuleAppliesTo(rule, fs[r], cache[r]) IN
       /\ cache' = [cache EXCEPT ![r] = CacheAfterAppliesTo(rule, fs[r], cache[r])]
       /\ Logged(r, rule.id, "applies_to", IF applies THEN "True" ELSE "False")
       /\ IF AppliesNext(applies) = "check" THEN Held(r, "check", NoPending)
          ELSE Recorded(r, "skip", "")
    /\ UNCHANGED <<queue, fs, remoteDesc, env, fetched, faults>>
    /\ UNCHANGED <<mainVars, regVars, unitVars, fs0, remoteDesc0, localDirs0>>

\* lines 188-196: rule.check(repo)
Check(r) ==
    /\ Working
    /\ pc[r] = "check"
    /\ LET rule == rules[idx[r]] IN
       \E io \in IoChoices(rule.id, "check") :
         LET result == RuleCheck(rule, fs[r], remoteDesc[r], env, io) IN
         /\ io = "ok" \/ result # RuleCheck(rule, fs[r], remoteDesc[r], env, "ok")
         /\ Spent(io)
         /\ Logged(r, rule.id, "check", result.status)
         /\ CASE result.raised           -> Internal(r)
              [] result.status = "PASS"  -> Recorded(r, "pass", "")
              [] result.status = "SKIP"  -> Recorded(r, "skip", "")
              [] OTHER -> Held(r, "fix", [NoPending EXCEPT
                                !.check = CheckResult(result.status, result.message)])
    /\ UNCHANGED <<queue, fs, cache, remoteDesc, env, fetched>>
    /\ UNCHANGED <<mainVars, regVars, unitVars, fs0, remoteDesc0, localDirs0>>

\* lines 198-221: rule.fix(repo, dry_run=dry_run)
Fix(r) ==
    /\ Working
    /\ pc[r] = "fix"
    /\ LET rule == rules[idx[r]] IN
       \E io \in IoChoices(rule.id, "fix") :
         LET ret == RuleFix(rule, fs[r], remoteDesc[r], env, dry_run, io) IN
         /\ io = "ok" \/ ret # RuleFix(rule, fs[r], remoteDesc[r], env, dry_run, "ok")
         /\ Spent(io)
         /\ fs' = [fs EXCEPT ![r] = ret.st]
         /\ remoteDesc' = [remoteDesc EXCEPT ![r] = ret.desc]
         /\ Logged(r, rule.id, "fix", IF ret.raised THEN "RAISE" ELSE ret.out.status)
         /\ CASE ret.raised -> Internal(r)
              [] ~ret.raised /\ ret.out.status = "fixed" /\ Verifies(dry_run) ->
                    Held(r, "verify", [pending[r] EXCEPT !.fix = ret.out])
              [] ~ret.raised /\ ret.out.status = "fixed" /\ ~Verifies(dry_run) ->
                    Recorded(r, "fixed", ret.out.message)
              [] OTHER ->
                    Recorded(r, FixStatus(ret.out),
                             IF ret.out.status = "manual" THEN pending[r].check.message
                             ELSE IF ret.out.status = "already_ok" THEN ""
                             ELSE ret.out.message)
    /\ UNCHANGED <<queue, cache, env, fetched>>
    /\ UNCHANGED <<mainVars, regVars, unitVars, fs0, remoteDesc0, localDirs0>>

\* lines 207-213: verify = rule.check(repo)
Verify(r) ==
    /\ Working
    /\ pc[r] = "verify"
    /\ LET rule == rules[idx[r]] IN
       \E io \in IoChoices(rule.id, "check") :
         LET verify == RuleCheck(rule, fs[r], remoteDesc[r], env, io) IN
         /\ io = "ok" \/ verify # RuleCheck(rule, fs[r], remoteDesc[r], env, "ok")
         /\ Spent(io)
         /\ Logged(r, rule.id, "verify", verify.status)
         /\ IF verify.raised THEN Internal(r)
            ELSE Recorded(r, VerifyStatus(verify),
                          IF verify.status = "PASS" THEN pending[r].fix.message
                          ELSE verify.message)
    /\ UNCHANGED <<queue, fs, cache, remoteDesc, env, fetched>>
    /\ UNCHANGED <<mainVars, regVars, unitVars, fs0, remoteDesc0, localDirs0>>

(***************************************************************************)
(* repo.py: Repo.discover                                                  *)
(***************************************************************************)
\* names the children of repos_dir can have
DirNames == {"Zed", "app", "lib"}
\* the filter_pattern values tried
Filters == {"", "p", "ed", "x"}

\* the code points of a name or pattern: Path and str compare by code point
NameChars(n) ==
    CASE n = "Zed" -> <<90, 101, 100>>
      [] n = "app" -> <<97, 112, 112>>
      [] n = "lib" -> <<108, 105, 98>>
      [] n = "p"   -> <<112>>
      [] n = "ed"  -> <<101, 100>>
      [] n = "x"   -> <<120>>
      [] OTHER     -> <<>>

\* `needle in hay` for two str values
StrContains(hay, needle) ==
    \E i \in 1..(Len(hay) - Len(needle) + 1) : SubSeq(hay, i, i + Len(needle) - 1) = needle

\* str.startswith
StrStartsWith(hay, needle) ==
    Len(needle) <= Len(hay) /\ SubSeq(hay, 1, Len(needle)) = needle

\* what a child of repos_dir is: no such entry, a regular file, a directory
\* without .git, a directory whose .git is a file (linked worktree,
\* submodule checkout), a directory holding a .git directory
ChildKinds == {"absent", "file", "dir", "gitfile", "repo"}

\* child.is_dir()
ChildIsDir(kind) == kind \in {"dir", "gitfile", "repo"}

\* (child / ".git").is_dir()
GitIsDir(kind) == kind = "repo"

\* `filter_pattern and filter_pattern not in child.name` is false
MatchesFilterPrefix(pattern, name) ==
    pattern = "" \/ StrStartsWith(NameChars(name), NameChars(pattern))

MatchesFilter(pattern, name) ==
    pattern = "" \/ StrContains(NameChars(name), NameChars(pattern))

\* Repo._check_archived: False when gh cannot be asked or fails
_check_archived(gh, name) == gh.ok /\ name \in gh.archived

\* the archive test of the loop body: lines 198-207
IsArchived(call, gh, name) ==
    IF call.archived_names.given THEN name \in call.archived_names.names
    ELSE _check_archived(gh, name)

\* The remote is asked whenever archived repositories are skipped.
ConsultsRemoteAlways(call) == call.skip_archived

\* lines 198-204: the branch that builds a Repo and reads repo.is_archived
ConsultsRemote(call) == call.skip_archived /\ ~call.archived_names.given

RECURSIVE SortedNames(_)
\* sorted(repos_dir.iterdir()), as names
SortedNames(S) ==
    IF S = {} THEN <<>>
    ELSE LET m == CHOOSE x \in S : \A y \in S \ {x} : StrLess(NameChars(x), NameChars(y))
         IN  <<m>> \o SortedNames(S \ {m})

\* lines 189-192: `if not repos_dir.is_dir(): return repos`, else start the loop
DiscoverEnter ==
    /\ dPc = "call"
    /\ IF ~dDisk.root_is_dir
       THEN dPc' = "returned" /\ UNCHANGED dTodo
       ELSE /\ dPc' = "loop"
            /\ dTodo' = SortedNames({n \in DirNames : dDisk.children[n] # "absent"})
    /\ UNCHANGED <<dCall, dDisk, dGh, dRepos, dQueried>>
    /\ UNCHANGED <<regVars, runVars, worldVars, histVars, ruleVars, auxVars>>

\* lines 192-208: one iteration of `for child in sorted(repos_dir.iterdir())`
DiscoverVisit ==
    /\ dPc = "loop"
    /\ dTodo # <<>>
    /\ LET child == Head(dTodo)
           kind == dDisk.children[child]
           keep == /\ ChildIsDir(kind)
                   /\ GitIsDir(kind)
                   /\ MatchesFilter(dCall.filter_pattern, child)
                   /\ (dCall.skip_archived => ~IsArchived(dCall, dGh, child))
           asked == /\ ChildIsDir(kind)
                    /\ GitIsDir(kind)
                    /\ MatchesFilter(dCall.filter_pattern, child)
                    /\ ConsultsRemote(dCall)
       IN  /\ dRepos' = IF keep THEN Append(dRepos, child) ELSE dRepos
           /\ dQueried' = IF asked THEN dQueried \cup {child} ELSE dQueried
    /\ dTodo' = Tail(dTodo)
    /\ UNCHANGED <<dCall, dDisk, dGh, dPc>>
    /\ UNCHANGED <<regVars, runVars, worldVars, histVars, ruleVars, auxVars>>

\* line 209: return repos
DiscoverReturn ==
    /\ dPc = "loop"
    /\ dTodo = <<>>
    /\ dPc' = "returned"
    /\ UNCHANGED <<dCall, dDisk, dGh, dTodo, dRepos, dQueried>>
    /\ UNCHANGED <<regVars, runVars, worldVars, histVars, ruleVars, auxVars>>

\* the variables of Repo.discover while something else runs
DiscIdle ==
    /\ dCall = [filter_pattern |-> "", skip_archived |-> TRUE,
                archived_names |-> NoArchivedNames]
    /\ dDisk = [root_is_dir |-> FALSE, children |-> [n \in DirNames |-> "absent"]]
    /\ dGh = [ok |-> FALSE, archived |-> {}]
    /\ dPc = "idle" /\ dTodo = <<>> /\ dRepos = <<>> /\ dQueried = {}

(***************************************************************************)
(* rules/*.py: one rule driven on one Repo object                          *)
(***************************************************************************)
\* how many calls one harness run makes on its Repo object
MaxCalls == 3

\* rules/_helpers.py
ESSENTIAL_GITIGNORE ==
    {".env", ".DS_Store", "node_modules/", "__pycache__/", "*.pyc", ".venv/"}

\* pattern.rstrip("/").lower(), on the patterns a .gitignore of the model holds
PatternBase(p) ==
    CASE p = "node_modules/" -> "node_modules"
      [] p = "__pycache__/"  -> "__pycache__"
      [] p = ".venv/"        -> ".venv"
      [] p = ".DS_Store"     -> ".ds_store"
      [] OTHER               -> p

\* The text of a .gitignore: the patterns on the lines above the managed
\* header, and the patterns below it.
GitContent(own, managed) == [own |-> own, managed |-> managed]
NoContent == GitContent({}, {})

\* `pattern.rstrip("/").lower() not in content_lower` is false
InContent(p, content) ==
    \E line \in content.own \cup content.managed : PatternBase(line) = PatternBase(p)

\* gitignore.py: _parse_managed_rules
_parse_managed_rules(content) == content.managed

\* gitignore.py: _strip_managed_blocks
_strip_managed_blocks(content) == GitContent(content.own, {})

\* gitignore.py: GitignoreRule.check; glob is what _load_gitignore_global() returns
GitignoreCheck(st, glob) ==
    IF ".gitignore" \notin st.files THEN CheckReturn("FAIL", ".gitignore not found")
    ELSE IF \E p \in ESSENTIAL_GITIGNORE : ~InContent(p, st.ignore)
         THEN CheckReturn("FAIL", "Missing patterns")
    ELSE IF glob # {} /\ _parse_managed_rules(st.ignore) # glob
         THEN CheckReturn("FAIL", "Managed block out of sync")
    ELSE CheckReturn("PASS", "")

\* gitignore.py: GitignoreRule.fix
GitignoreFix(st, desc, glob, dry, io) ==
    LET all_rules == IF glob # {} THEN glob ELSE ESSENTIAL_GITIGNORE
        managed_rules == _parse_managed_rules(st.ignore)
    IN  IF ".gitignore" \notin st.files
        THEN IF dry THEN FixReturn(FixOutcome("fixed", "Would create .gitignore"), st, desc)
             ELSE IF io = "fail" THEN FixReturn(FixOutcome("failed", "write failed"), st, desc)
             ELSE FixReturn(FixOutcome("fixed", "Created .gitignore"),
                            [st EXCEPT !.files = @ \cup {".gitignore"},
                                       !.ignore = GitContent({}, all_rules),
                                       !.dirty = TRUE], desc)
        ELSE IF managed_rules = all_rules /\ managed_rules # {}
             THEN FixReturn(FixOutcome("already_ok", ""), st, desc)
        ELSE IF dry THEN FixReturn(FixOutcome("fixed", "Would sync managed block"), st, desc)
        ELSE IF io = "fail" THEN FixReturn(FixOutcome("failed", "write failed"), st, desc)
        ELSE FixReturn(FixOutcome("fixed", "Synced managed gitignore block"),
                       [st EXCEPT !.ignore = GitContent(_strip_managed_blocks(@).own, all_rules),
                                  !.dirty = TRUE], desc)

\* settings_optimizer.py: is_pattern_subset, on the permissions of the model
is_pattern_subset(specific, general) ==
    \/ specific = general
    \/ specific = "Bash(ls -la)" /\ general = "Bash(ls:*)"

\* settings_optimizer.py: analyze(), the REDUNDANT group
RedundantPermissions(globalAllow, st) ==
    {p \in st.allow \ DANGEROUS_PATTERNS :
       \E g \in globalAllow : is_pattern_subset(p, g)}

\* rules/settings.py: _check_settings(repo, "clean", ...)
SettingsCleanCheck(st, globalAllow) ==
    IF SETTINGS_LOCAL \notin st.files THEN CheckReturn("SKIP", "")
    ELSE IF ~load_settings(globalAllow, st) THEN CheckReturn("SKIP", "")
    ELSE IF RedundantPermissions(globalAllow, st) = {} THEN CheckReturn("PASS", "")
    ELSE CheckReturn("FAIL", "Redundant permissions or unmigrated WebFetch domains")

\* A _save_settings that writes the permissions to self.global_path as well.
_save_settings_global(home, st, project_perms) ==
    [home |-> [home EXCEPT !.allow = project_perms],
     st   |-> [st EXCEPT !.allow = project_perms, !.dirty = TRUE]]

\* settings_optimizer.py: _save_settings writes self.project_path and nothing else
_save_settings(home, st, project_perms) ==
    [home |-> home,
     st   |-> [st EXCEPT !.allow = project_perms, !.dirty = TRUE]]

\* settings_optimizer.py: auto_fix: drop the redundant permissions, copy the
\* file to settings.local.json.bak, save
auto_fix(home, st) ==
    LET project_perms == st.allow \ RedundantPermissions(home.allow, st)
        backed == [st EXCEPT !.files = @ \cup {".claude/settings.local.json.bak"}]
    IN  _save_settings(home, backed, project_perms)

\* github.py: get_workflow_conclusions; "none" is the empty dict, which a
\* failing call returns too
get_workflow_conclusions(remote, io) == IF io = "get_fail" THEN "none" ELSE remote.conclusions

\* rules/workflows_passing.py: WorkflowsPassingRule.check
WorkflowsPassingCheck(remote, pre, ghAuth, io) ==
    LET conclusions == IF pre.workflow_conclusions # "None" THEN pre.workflow_conclusions
                       ELSE get_workflow_conclusions(remote, io)
    IN  IF ~ghAuth THEN CheckReturn("SKIP", "gh not authenticated")
        ELSE IF conclusions = "none" THEN CheckReturn("SKIP", "No completed workflow runs found")
        ELSE IF conclusions = "success" THEN CheckReturn("PASS", "")
        ELSE CheckReturn("FAIL", "ci: failure")

\* gitguard/rules/repo_description.py: check, reading Repo._prefetch first
PrefetchedDescriptionCheck(st, desc, pre, ghAuth, io) ==
    LET github_desc == IF pre.description # "None" THEN pre.description
                       ELSE get_repo_description(desc, io)
    IN  IF ~ghAuth THEN CheckReturn("SKIP", "")
        ELSE IF "README.md" \notin st.files THEN CheckReturn("SKIP", "")
        ELSE IF st.tagline = "" THEN CheckReturn("SKIP", "")
        ELSE IF st.tagline = github_desc THEN CheckReturn("PASS", "")
        ELSE CheckReturn("FAIL", "Description mismatch (GitHub vs README tagline)")

\* gitguard/rules/repo_description.py: fix; io "fail" = gh repo edit fails
PrefetchedDescriptionFix(st, desc, pre, ghAuth, dry, io) ==
    LET github_desc == IF pre.description # "None" THEN pre.description
                       ELSE get_repo_description(desc, io)
    IN  IF ~ghAuth THEN FixReturn(FixOutcome("skipped", "gh not authenticated"), st, desc)
        ELSE IF "README.md" \notin st.files
             THEN FixReturn(FixOutcome("skipped", "No README.md"), st, desc)
        ELSE IF st.tagline = "" THEN FixReturn(FixOutcome("skipped", "No tagline found"), st, desc)
        ELSE IF st.tagline = github_desc THEN FixReturn(FixOutcome("already_ok", ""), st, desc)
        ELSE IF dry THEN FixReturn(FixOutcome("fixed", "Would update description"), st, desc)
        ELSE IF io = "fail" THEN FixReturn(FixOutcome("failed", "gh repo edit failed"), st, desc)
        ELSE FixReturn(FixOutcome("fixed", "Updated description"), st, st.tagline)

RELEASE_YML == ".github/workflows/release.yml"

\* rules/cli.py: CliReleaseWorkflowRule.check; release.yml stands for a
\* workflow file whose text matches publish-pypi.yml|release.yml@main
CliReleaseWorkflowCheck(st) ==
    IF RELEASE_YML \in st.files THEN CheckReturn("PASS", "")
    ELSE CheckReturn("FAIL", "No release workflow with PyPI publishing found")

\* rules/cli.py: CliReleaseWorkflowRule.fix
CliReleaseWorkflowFix(st, desc, dry, io) ==
    IF RELEASE_YML \in st.files THEN FixReturn(FixOutcome("already_ok", ""), st, desc)
    ELSE IF dry THEN FixReturn(FixOutcome("fixed", "Would create release.yml"), st, desc)
    ELSE IF io = "fail" THEN FixReturn(FixOutcome("failed", "write failed"), st, desc)
    ELSE FixReturn(FixOutcome("fixed", "Created .github/workflows/release.yml"),
                   [st EXCEPT !.files = @ \cup {RELEASE_YML}, !.dirty = TRUE], desc)

\* repo.py: what has_workflows computes when the cache has no entry
WorkflowFilesPresent(st) ==
    st.files \cap {".github/workflows/ci.yml", RELEASE_YML} # {}

\* repo.py: Repo.has_workflows, read through Repo._cache
has_workflows(repo, st) ==
    IF repo.cache.has_workflows = "unset" THEN WorkflowFilesPresent(st)
    ELSE repo.cache.has_workflows = "yes"

\* the Repo object after has_workflows was read
AfterHasWorkflows(repo, st) ==
    IF repo.cache.has_workflows = "unset"
    THEN [repo EXCEPT !.cache.has_workflows = IF WorkflowFilesPresent(st) THEN "yes" ELSE "no"]
    ELSE repo

\* the rules whose applies_to reads repo.has_workflows
GatedOnWorkflows == {"WORKFLOWS_PASSING", "PII_SCAN"}

\* rule.applies_to(repo); the Repo of the harness has a GitHub remote
UnitAppliesTo(rule, w, repo) ==
    CASE rule = "CLI_RELEASE_WORKFLOW" -> w.tree.cli
      [] rule \in GatedOnWorkflows     -> has_workflows(repo, w.tree)
      [] OTHER                         -> TRUE

\* rule.check(repo)
UnitCheck(rule, w, repo, e, io) ==
    LET st == w.tree  desc == w.remote.description IN
    CASE rule = "LICENSE_EXISTS"       -> LicenseExistsCheck(st)
      [] rule = "README_LICENSE"       -> ReadmeLicenseCheck(st)
      [] rule = "GITIGNORE"            -> GitignoreCheck(st, e.globalIgnore)
      [] rule = "SETTINGS_DANGEROUS"   -> SettingsDangerousCheck(st, w.home.allow)
      [] rule = "SETTINGS_CLEAN"       -> SettingsCleanCheck(st, w.home.allow)
      [] rule = "REPO_DESCRIPTION"     -> RepoDescriptionCheck(st, desc, e.ghAuth, io)
      [] rule = "gitguard.REPO_DESCRIPTION" ->
             PrefetchedDescriptionCheck(st, desc, repo.prefetch, e.ghAuth, io)
      [] rule = "CLI_RELEASE_WORKFLOW" -> CliReleaseWorkflowCheck(st)
      [] rule = "WORKFLOWS_PASSING"    ->
             WorkflowsPassingCheck(w.remote, repo.prefetch, e.ghAuth, io)

\* what a fix that acts on the tree and the description leaves of the world
Lifted(w, ret) ==
    [out |-> ret.out, raised |-> ret.raised,
     world |-> [w EXCEPT !.tree = ret.st, !.remote.description = ret.desc]]

\* rules/settings.py: SettingsCleanRule.fix
SettingsCleanFix(w, dry) ==
    LET result == SettingsCleanCheck(w.tree, w.home.allow)
        saved == auto_fix(w.home, w.tree)
    IN  IF result.status = "SKIP"
        THEN [out |-> FixOutcome("skipped", "No settings.local.json or no permissions"),
              raised |-> FALSE, world |-> w]
        ELSE IF result.status = "PASS"
        THEN [out |-> FixOutcome("already_ok", ""), raised |-> FALSE, world |-> w]
        ELSE IF dry
        THEN [out |-> FixOutcome("fixed", "Would optimize settings"), raised |-> FALSE,
              world |-> w]
        ELSE [out |-> FixOutcome("fixed", "Optimized settings"), raised |-> FALSE,
              world |-> [w EXCEPT !.home = saved.home, !.tree = saved.st]]

\* rule.fix(repo, dry_run=dry)
UnitFix(rule, w, repo, e, dry, io) ==
    LET st == w.tree  desc == w.remote.description IN
    CASE rule = "LICENSE_EXISTS"       -> Lifted(w, LicenseExistsFix(st, desc, dry, io))
      [] rule = "README_LICENSE"       -> Lifted(w, ReadmeLicenseFix(st, desc, dry, io))
      [] rule = "GITIGNORE"            ->
             Lifted(w, GitignoreFix(st, desc, e.globalIgnore, dry, io))
      [] rule = "SETTINGS_DANGEROUS"   -> Lifted(w, SettingsDangerousFix(st, desc, dry, io))
      [] rule = "SETTINGS_CLEAN"       -> SettingsCleanFix(w, dry)
      [] rule = "REPO_DESCRIPTION"     ->
             Lifted(w, RepoDescriptionFix(st, desc, e.ghAuth, dry, io))
      [] rule = "gitguard.REPO_DESCRIPTION" ->
             Lifted(w, PrefetchedDescriptionFix(st, desc, repo.prefetch, e.ghAuth, dry, io))
      [] rule = "CLI_RELEASE_WORKFLOW" -> Lifted(w, CliReleaseWorkflowFix(st, desc, dry, io))
      [] OTHER -> Lifted(w, FixReturn(BaseFix(rule), st, desc))

\* the outcomes of the external calls of one operation, other than "ok"
UnitFaults(rule, op) ==
    CASE rule \in {"LICENSE_EXISTS", "README_LICENSE", "GITIGNORE",
                   "CLI_RELEASE_WORKFLOW"} /\ op = "fix"        -> {"fail"}
      [] rule \in {"REPO_DESCRIPTION", "gitguard.REPO_DESCRIPTION"}
           /\ op = "check"                                      -> {"get_fail"}
      [] rule \in {"REPO_DESCRIPTION", "gitguard.REPO_DESCRIPTION"}
           /\ op = "fix"                                        -> {"get_fail", "fail"}
      [] rule = "WORKFLOWS_PASSING" /\ op = "check"             -> {"get_fail"}
      [] OTHER                                                  -> {}

\* A check that repairs what it finds.
CheckCallRepairing(rule, w, repo, e, io) ==
    [result |-> UnitCheck(rule, w, repo, e, io),
     world  |-> UnitFix(rule, w, repo, e, FALSE, "ok").world]

\* a call of rule.check: its answer and the world it leaves
CheckCall(rule, w, repo, e, io) ==
    [result |-> UnitCheck(rule, w, repo, e, io),
     world  |-> w]

\* one entry of the harness log: the call, its external outcome, its answer,
\* the world and the Repo object before it, the world after it
Call(rule, op, dry, io, out, w, repo, after) ==
    [rule |-> rule, op |-> op, dry |-> dry, io |-> io, out |-> out,
     before |-> w, repo |-> repo, after |-> after]

CanCall == uPc = "ready" /\ Len(uLog) < MaxCalls

\* engine.py lines 153-168: the prefetch phase on this Repo; `listed` says
\* whether the organization metadata names the repository
Prefetch ==
    /\ CanCall
    /\ uLog = <<>>
    /\ \E listed \in {FALSE, uEnv.ghAuth}, io \in {"ok", "get_fail"} :
         LET wf == has_workflows(uRepo, uWorld.tree)
             repo1 == AfterHasWorkflows(uRepo, uWorld.tree)
             repo2 == [repo1 EXCEPT
                         !.prefetch.description =
                             IF listed THEN uWorld.remote.description ELSE @,
                         !.prefetch.workflow_conclusions =
                             IF wf THEN get_workflow_conclusions(uWorld.remote, io) ELSE @]
         IN  /\ io = "ok" \/ (wf /\ uWorld.remote.conclusions # "none")
             /\ uRepo' = repo2
             /\ uLog' = Append(uLog, Call("", "prefetch", FALSE, io,
                                          IF listed THEN "listed" ELSE "unlisted",
                                          uWorld, uRepo, uWorld))
    /\ UNCHANGED <<uPc, uEnv, uWorld>>
    /\ UNCHANGED <<regVars, runVars, worldVars, histVars, discVars, auxVars>>

\* rule.applies_to(repo), for the rule under test or for PII_SCAN (a rule
\* gated on has_workflows that the runner evaluates after the others)
CallAppliesTo(rule) ==
    /\ CanCall
    /\ rule \in {uEnv.rule, "PII_SCAN"}
    /\ uRepo' = IF rule \in GatedOnWorkflows THEN AfterHasWorkflows(uRepo, uWorld.tree)
                ELSE uRepo
    /\ uLog' = Append(uLog, Call(rule, "applies_to", FALSE, "ok",
                                 IF UnitAppliesTo(rule, uWorld, uRepo) THEN "True"
                                 ELSE "False",
                                 uWorld, uRepo, uWorld))
    /\ UNCHANGED <<uPc, uEnv, uWorld>>
    /\ UNCHANGED <<regVars, runVars, worldVars, histVars, discVars, auxVars>>

\* rule.check(repo), which the runner calls on a rule that applies
CallCheck ==
    /\ CanCall
    /\ UnitAppliesTo(uEnv.rule, uWorld, uRepo)
    /\ \E io \in {"ok"} \cup UnitFaults(uEnv.rule, "check") :
         LET ret == CheckCall(uEnv.rule, uWorld, uRepo, uEnv, io) IN
         /\ io = "ok" \/ ret # CheckCall(uEnv.rule, uWorld, uRepo, uEnv, "ok")
         /\ uWorld' = ret.world
         /\ uLog' = Append(uLog, Call(uEnv.rule, "check", FALSE, io, ret.result.status,
                                      uWorld, uRepo, ret.world))
    /\ UNCHANGED <<uPc, uEnv, uRepo>>
    /\ UNCHANGED <<regVars, runVars, worldVars, histVars, discVars, auxVars>>

\* rule.fix(repo, dry_run=dry), which the runner calls on a rule that applies
CallFix ==
    /\ CanCall
    /\ UnitAppliesTo(uEnv.rule, uWorld, uRepo)
    /\ \E dry \in BOOLEAN, io \in {"ok"} \cup UnitFaults(uEnv.rule, "fix") :
         LET ret == UnitFix(uEnv.rule, uWorld, uRepo, uEnv, dry, io) IN
         /\ io = "ok" \/ ret # UnitFix(uEnv.rule, uWorld, uRepo, uEnv, dry, "ok")
         /\ uWorld' = ret.world
         /\ uLog' = Append(uLog, Call(uEnv.rule, "fix", dry, io,
                                      IF ret.raised THEN "RAISE" ELSE ret.out.status,
                                      uWorld, uRepo, ret.world))
    /\ UNCHANGED <<uPc, uEnv, uRepo>>
    /\ UNCHANGED <<regVars, runVars, worldVars, histVars, discVars, auxVars>>

(***************************************************************************)
(* The repositories the harness drives a rule on                           *)
(***************************************************************************)
UnitTree(files, licRef, tagline, allow, ignore, cli) ==
    [files |-> files, licRef |-> licRef, badge |-> FALSE, tagline |-> tagline,
     allow |-> allow, tracked |-> {}, dirty |-> FALSE, ignore |-> ignore, cli |-> cli]

\* the rules driven
UnitRules ==
    {"LICENSE_EXISTS", "README_LICENSE", "GITIGNORE", "SETTINGS_DANGEROUS",
     "SETTINGS_CLEAN", "REPO_DESCRIPTION", "gitguard.REPO_DESCRIPTION",
     "CLI_RELEASE_WORKFLOW", "WORKFLOWS_PASSING"}

\* the working trees each rule is driven on
UnitTrees(rule) ==
    CASE rule = "LICENSE_EXISTS" ->
           { UnitTree({".gitkeep"}, FALSE, "", {}, NoContent, FALSE),
             UnitTree({"LICENSE"}, FALSE, "", {}, NoContent, FALSE) }
      [] rule = "README_LICENSE" ->
           { UnitTree({"README.md"}, TRUE, "", {}, NoContent, FALSE),
             UnitTree({"README.md", "LICENSE"}, FALSE, "", {}, NoContent, FALSE),
             UnitTree({"README.md", "LICENSE"}, TRUE, "", {}, NoContent, FALSE) }
      [] rule = "GITIGNORE" ->
           { UnitTree({".gitkeep"}, FALSE, "", {}, NoContent, FALSE),
             UnitTree({".gitignore"}, FALSE, "", {}, GitContent({"*.pyc"}, {}), FALSE),
             UnitTree({".gitignore"}, FALSE, "", {},
                      GitContent(ESSENTIAL_GITIGNORE, {}), FALSE),
             UnitTree({".gitignore"}, FALSE, "", {},
                      GitContent({"dist/"}, ESSENTIAL_GITIGNORE), FALSE) }
      [] rule \in {"SETTINGS_DANGEROUS", "SETTINGS_CLEAN"} ->
           { UnitTree({SETTINGS_LOCAL}, FALSE, "", {"Bash(rm:*)", "Bash(ls:*)"},
                      NoContent, FALSE),
             UnitTree({SETTINGS_LOCAL}, FALSE, "", {"Bash(ls -la)"}, NoContent, FALSE),
             UnitTree({".gitkeep"}, FALSE, "", {}, NoContent, FALSE) }
      [] rule \in {"REPO_DESCRIPTION", "gitguard.REPO_DESCRIPTION"} ->
           { UnitTree({"README.md"}, FALSE, "a tagline", {}, NoContent, FALSE),
             UnitTree({"README.md"}, FALSE, "", {}, NoContent, FALSE) }
      [] rule = "CLI_RELEASE_WORKFLOW" ->
           { UnitTree({"pyproject.toml"}, FALSE, "", {}, NoContent, TRUE),
             UnitTree({"pyproject.toml", RELEASE_YML}, FALSE, "", {}, NoContent, TRUE),
             UnitTree({".gitkeep"}, FALSE, "", {}, NoContent, FALSE) }
      [] rule = "WORKFLOWS_PASSING" ->
           { UnitTree({".github/workflows/ci.yml"}, FALSE, "", {}, NoContent, FALSE),
             UnitTree({".gitkeep"}, FALSE, "", {}, NoContent, FALSE) }

\* permissions.allow of ~/.claude/settings.json
UnitHomes(rule) ==
    IF rule \in {"SETTINGS_DANGEROUS", "SETTINGS_CLEAN"}
    THEN {{}, {"Bash(rm:*)"}, {"Bash(ls:*)"}}
    ELSE {{"Bash(ls:*)"}}

\* the repository on GitHub: its description, the conclusions of its last runs
UnitRemotes(rule) ==
    CASE rule \in {"REPO_DESCRIPTION", "gitguard.REPO_DESCRIPTION"} ->
           {[description |-> d, conclusions |-> "none"] : d \in {"a tagline", "old text"}}
      [] rule = "WORKFLOWS_PASSING" ->
           {[description |-> "old text", conclusions |-> c] :
              c \in {"none", "success", "failure"}}
      [] OTHER -> {[description |-> "old text", conclusions |-> "none"]}

\* the rules of gitignore.global when the file is shipped next to the package
GITIGNORE_GLOBAL == ESSENTIAL_GITIGNORE \cup {"*.log"}

\* a Repo object just constructed
NewRepo ==
    [cache |-> [has_workflows |-> "unset"],
     prefetch |-> [description |-> "None", workflow_conclusions |-> "None"]]

\* a sibling repository under the same repos_dir
SiblingTree ==
    UnitTree({"README.md", "LICENSE", SETTINGS_LOCAL}, TRUE, "a tagline",
             {"Bash(ls:*)"}, NoContent, FALSE)

\* the variables of the rule harness while something else runs
RuleIdle ==
    /\ uPc = "idle"
    /\ uEnv = [rule |-> "", ghAuth |-> FALSE, globalIgnore |-> {}]
    /\ uWorld = [tree |-> NoTree, other |-> NoTree, home |-> [allow |-> {}],
                 remote |-> [description |-> "", conclusions |-> "none"]]
    /\ uRepo = NewRepo
    /\ uLog = <<>>

(***************************************************************************)
(* The manifest rules: rules/python.py, rules/cli.py, repo.py              *)
(***************************************************************************)
\* pyproject.toml: absent, a file that cannot be opened, a file that is not
\* TOML, or a table with the keys the rules read
Manifest(state, scripts, version, backend, requires_python, pypi) ==
    [state |-> state, scripts |-> scripts, version |-> version, backend |-> backend,
     requires_python |-> requires_python, pypi |-> pypi]

\* Repo.has_pyproject
has_pyproject(m) == m.state # "absent"

\* open(pyproject, "rb") and tomllib.load(f) both return
TomlLoads(m) == m.state = "ok"

\* Repo._parse_cli_scripts, as bool(...)
_parse_cli_scripts(m) ==
    IF ~has_pyproject(m) THEN FALSE
    ELSE IF TomlLoads(m) THEN m.scripts
    ELSE FALSE

\* Repo._check_version
_check_version(m) ==
    IF ~has_pyproject(m) THEN FALSE
    ELSE IF TomlLoads(m) THEN m.version \in {"static", "dynamic"}
    ELSE FALSE

\* Repo.is_cli, read through Repo._cache
is_cli(c, m) ==
    IF c.is_cli = "unset" THEN _parse_cli_scripts(m) ELSE c.is_cli = "yes"

\* Repo.has_version, read through Repo._cache
has_version(c, m) ==
    IF c.has_version = "unset" THEN _check_version(m) ELSE c.has_version = "yes"

YesNo(b) == IF b THEN "yes" ELSE "no"

\* the rules that read pyproject.toml, in registry order
ManifestRules ==
    <<"PYTHON_MIN_VERSION", "CLI_BUILD_BACKEND", "CLI_VERSION", "CLI_PYPI_READY">>

\* rule.applies_to(repo)
ManifestAppliesTo(rule, c, m) ==
    IF rule = "PYTHON_MIN_VERSION" THEN has_pyproject(m) ELSE is_cli(c, m)

\* PythonMinVersionRule.check
PythonMinVersionCheck(m) ==
    IF ~has_pyproject(m) THEN CheckResult("SKIP", "")
    ELSE IF TomlLoads(m) /\ m.requires_python THEN CheckResult("PASS", "")
    ELSE CheckResult("FAIL", "pyproject.toml missing requires-python")

\* CliBuildBackendRule.check
CliBuildBackendCheck(m) ==
    IF ~TomlLoads(m) THEN CheckResult("FAIL", "Cannot read build-system")
    ELSE IF m.backend = "hatchling.build" THEN CheckResult("PASS", "")
    ELSE CheckResult("FAIL", "Build backend is not 'hatchling.build'")

\* CliVersionRule.check
CliVersionCheck(c, m) ==
    IF has_version(c, m) THEN CheckResult("PASS", "")
    ELSE CheckResult("FAIL", "CLI project missing version (static or dynamic)")

\* CliPypiReadyRule.check
CliPypiReadyCheck(m) ==
    IF ~TomlLoads(m) THEN CheckResult("FAIL", "Cannot read pyproject.toml")
    ELSE IF m.pypi /\ m.requires_python THEN CheckResult("PASS", "")
    ELSE CheckResult("FAIL", "Missing PyPI metadata")

\* rule.check(repo)
ManifestCheck(rule, c, m) ==
    CASE rule = "PYTHON_MIN_VERSION" -> PythonMinVersionCheck(m)
      [] rule = "CLI_BUILD_BACKEND"  -> CliBuildBackendCheck(m)
      [] rule = "CLI_VERSION"        -> CliVersionCheck(c, m)
      [] rule = "CLI_PYPI_READY"     -> CliPypiReadyCheck(m)

\* Repo._cache after the rule was evaluated
ManifestCacheAfter(rule, c, m) ==
    LET c1 == IF rule # "PYTHON_MIN_VERSION" /\ c.is_cli = "unset"
              THEN [c EXCEPT !.is_cli = YesNo(is_cli(c, m))] ELSE c
    IN  IF rule = "CLI_VERSION" /\ ManifestAppliesTo(rule, c, m)
           /\ c1.has_version = "unset"
        THEN [c1 EXCEPT !.has_version = YesNo(has_version(c, m))]
        ELSE c1

\* engine.py, one turn of the rule loop of _process_repo for a rule that
\* inherits Rule.fix: applies_to, check, fix
EvaluateManifestRule ==
    /\ mPc = "ready"
    /\ Len(mResults) < Len(ManifestRules)
    /\ LET rule == ManifestRules[Len(mResults) + 1]
           applies == ManifestAppliesTo(rule, mCache, pyproject)
           result == ManifestCheck(rule, mCache, pyproject)
           outcome == BaseFix(rule)
       IN  /\ mCache' = ManifestCacheAfter(rule, mCache, pyproject)
           /\ mResults' = Append(mResults,
                 IF AppliesNext(applies) = "skip" THEN RuleResult(rule, "skip", "")
                 ELSE IF result.status = "PASS" THEN RuleResult(rule, "pass", "")
                 ELSE IF result.status = "SKIP" THEN RuleResult(rule, "skip", "")
                 ELSE RuleResult(rule, FixStatus(outcome), result.message))
    /\ UNCHANGED <<mPc, pyproject>>
    /\ UNCHANGED notManifest

\* the manifests the rules are evaluated on
Manifests ==
    { Manifest(s, FALSE, "", "", FALSE, FALSE) : s \in {"absent", "unreadable", "malformed"} }
    \cup { Manifest("ok", scripts, version, backend, rp, pypi) :
             scripts \in BOOLEAN, version \in {"", "static", "dynamic"},
             backend \in {"", "setuptools.build_meta", "hatchling.build"},
             rp \in BOOLEAN, pypi \in BOOLEAN }

\* a Repo object just constructed on a repository
ManifestInit ==
    /\ mPc = "ready"
    /\ pyproject \in Manifests
    /\ mCache = [is_cli |-> "unset", has_version |-> "unset"]
    /\ mResults = <<>>

ManifestNext == EvaluateManifestRule

\* the manifest variables while something else runs
ManifestIdle ==
    /\ mPc = "idle"
    /\ pyproject = Manifest("absent", FALSE, "", "", FALSE, FALSE)
    /\ mCache = [is_cli |-> "unset", has_version |-> "unset"]
    /\ mResults = <<>>

(***************************************************************************)
(* The thread pools of RuleRunner.run: clone, prefetch, process            *)
(***************************************************************************)
Pools == {"clone", "prefetch", "process"}

Min(a, b) == IF a < b THEN a ELSE b

\* A pool with one thread per work item.
PoolWorkersUncapped(n) == n

\* lines 142 and 226: max_workers=min(8, len(...))
PoolWorkers(n) == Min(MaxPoolWorkers, n)

NoPools == [p \in Pools |-> 0]

\* ThreadPoolExecutor(max_workers=size) entered and pool.map submitted n items
Opened(p, size, n) ==
    /\ poolPc' = p
    /\ poolSize' = [poolSize EXCEPT ![p] = size]
    /\ poolQueued' = [poolQueued EXCEPT ![p] = n]
    /\ UNCHANGED <<poolInput, poolRunning>>

\* leaving a `with ThreadPoolExecutor` block: shutdown(wait=True) returns when
\* every submitted item has run
Joined(p) == poolQueued[p] = 0 /\ poolRunning[p] = 0

\* lines 106-143: the clone phase; a dry run and an empty to_clone open no pool
ClonePhase ==
    /\ poolPc = "start"
    /\ IF ~poolInput.dry_run /\ poolInput.to_clone > 0
       THEN Opened("clone", PoolWorkers(poolInput.to_clone), poolInput.to_clone)
       ELSE poolPc' = "discover" /\ UNCHANGED <<poolInput, poolSize, poolQueued, poolRunning>>
    /\ UNCHANGED notPool

\* line 143: the clone pool is left
CloneJoin ==
    /\ poolPc = "clone"
    /\ Joined("clone")
    /\ poolPc' = "discover"
    /\ UNCHANGED <<poolInput, poolSize, poolQueued, poolRunning>>
    /\ UNCHANGED notPool

\* lines 145-168: discovery, the early return, the prefetch pool
PrefetchPhase ==
    /\ poolPc = "discover"
    /\ IF poolInput.repos = 0
       THEN poolPc' = "returned" /\ UNCHANGED <<poolInput, poolSize, poolQueued, poolRunning>>
       ELSE Opened("prefetch", MaxPoolWorkers, poolInput.wf_repos)
    /\ UNCHANGED notPool

\* lines 167-168 and 226-228: the prefetch pool is left, the repository pool
\* is entered
ProcessPhase ==
    /\ poolPc = "prefetch"
    /\ Joined("prefetch")
    /\ Opened("process", PoolWorkers(poolInput.repos), poolInput.repos)
    /\ UNCHANGED notPool

\* line 228: the repository pool is left
ProcessJoin ==
    /\ poolPc = "process"
    /\ Joined("process")
    /\ poolPc' = "returned"
    /\ UNCHANGED <<poolInput, poolSize, poolQueued, poolRunning>>
    /\ UNCHANGED notPool

\* a worker thread of pool p takes a work item: the executor starts a thread
\* only while fewer than max_workers exist
PoolStart(p) ==
    /\ poolQueued[p] > 0
    /\ poolRunning[p] < poolSize[p]
    /\ poolQueued' = [poolQueued EXCEPT ![p] = @ - 1]
    /\ poolRunning' = [poolRunning EXCEPT ![p] = @ + 1]
    /\ UNCHANGED <<poolPc, poolInput, poolSize>>
    /\ UNCHANGED notPool

\* a work item of pool p returns
PoolFinish(p) ==
    /\ poolRunning[p] > 0
    /\ poolRunning' = [poolRunning EXCEPT ![p] = @ - 1]
    /\ UNCHANGED <<poolPc, poolInput, poolSize, poolQueued>>
    /\ UNCHANGED notPool

\* run() called: the sizes of the three work lists
PoolInit ==
    /\ poolPc = "start"
    /\ poolInput \in [dry_run : BOOLEAN, to_clone : 0..MaxItems, repos : 0..MaxItems,
                      wf_repos : 0..MaxItems]
    /\ poolInput.wf_repos <= poolInput.repos
    /\ poolSize = NoPools
    /\ poolQueued = NoPools
    /\ poolRunning = NoPools

PoolNext ==
    \/ ClonePhase
    \/ CloneJoin
    \/ PrefetchPhase
    \/ ProcessPhase
    \/ ProcessJoin
    \/ \E p \in Pools : PoolStart(p)
    \/ \E p \in Pools : PoolFinish(p)

\* the pool variables while something else runs
PoolIdle ==
    /\ poolPc = "idle"
    /\ poolInput = [dry_run |-> FALSE, to_clone |-> 0, repos |-> 0, wf_repos |-> 0]
    /\ poolSize = NoPools
    /\ poolQueued = NoPools
    /\ poolRunning = NoPools

(***************************************************************************)
(* gitguard/rules/gitignore.py on the lines of the file                    *)
(***************************************************************************)
_MANAGED_HEADER == "# Managed by tsilva/.github"
_MANAGED_SUBHEADER == "# Do not remove - synced automatically"

\* rules/_helpers.py: ESSENTIAL_GITIGNORE, the list
EssentialList == <<".env", ".DS_Store", "node_modules/", "__pycache__/", "*.pyc", ".venv/">>

\* the lines a user writes: a pattern, a comment, a blank line
UserLines == {"dist/", "# mine", ""}

\* stripped.startswith("#"), on the lines of the model
IsComment(line) == line \in {"# mine", _MANAGED_HEADER, _MANAGED_SUBHEADER}

Range(q) == {q[i] : i \in 1..Len(q)}

\* index of the first line that is the managed header, 0 when there is none
FirstHeader(lines) ==
    IF \E i \in 1..Len(lines) : lines[i] = _MANAGED_HEADER
    THEN CHOOSE i \in 1..Len(lines) :
           /\ lines[i] = _MANAGED_HEADER
           /\ \A j \in 1..(i - 1) : lines[j] # _MANAGED_HEADER
    ELSE 0

\* _parse_managed_rules: in_managed is set at the first header and never reset
ParseManagedRules(lines) ==
    LET h == FirstHeader(lines) IN
    IF h = 0 THEN <<>>
    ELSE SelectSeq(SubSeq(lines, h + 1, Len(lines)),
                   LAMBDA line : line # "" /\ ~IsComment(line))

RECURSIVE PopBlank(_)
\* `while lines and not lines[-1].strip(): lines.pop()`
PopBlank(lines) ==
    IF lines # <<>> /\ lines[Len(lines)] = "" THEN PopBlank(SubSeq(lines, 1, Len(lines) - 1))
    ELSE lines

\* A strip that keeps nothing of the file.
StripManagedBlocksAll(lines) == <<>>

\* _strip_managed_blocks: the lines above the first header, trailing blank
\* lines popped
StripManagedBlocks(lines) ==
    LET h == FirstHeader(lines) IN
    PopBlank(IF h = 0 THEN lines ELSE SubSeq(lines, 1, h - 1))

\* _build_managed_block
_build_managed_block(all_rules) == <<_MANAGED_HEADER, _MANAGED_SUBHEADER>> \o all_rules

\* GitignoreRule.fix: the outcome and the file it leaves
GitignoreFixLines(file, glob, dry, io) ==
    LET all_rules == IF glob # <<>> THEN glob ELSE EssentialList
        managed_block == _build_managed_block(all_rules)
        managed_rules == ParseManagedRules(file.lines)
        repo_content == StripManagedBlocks(file.lines)
    IN  IF ~file.exists
        THEN IF dry THEN [out |-> "fixed", file |-> file]
             ELSE IF io = "fail" THEN [out |-> "failed", file |-> file]
             ELSE [out |-> "fixed", file |-> [exists |-> TRUE, lines |-> managed_block]]
        ELSE IF Range(managed_rules) = Range(all_rules) /\ managed_rules # <<>>
             THEN [out |-> "already_ok", file |-> file]
        ELSE IF dry THEN [out |-> "fixed", file |-> file]
        ELSE IF io = "fail" THEN [out |-> "failed", file |-> file]
        ELSE [out |-> "fixed",
              file |-> [exists |-> TRUE,
                        lines |-> IF repo_content # <<>>
                                  THEN repo_content \o <<"">> \o managed_block
                                  ELSE managed_block]]

\* rule.fix(repo, dry_run=dry)
CallGitignoreFix ==
    /\ gPc = "ready"
    /\ \E dry \in BOOLEAN, io \in {"ok", "fail"} :
         LET ret == GitignoreFixLines(gitignore, gGlobal, dry, io) IN
         /\ io = "ok" \/ ret # GitignoreFixLines(gitignore, gGlobal, dry, "ok")
         /\ gitignore' = ret.file
         /\ gOutcome' = [dry |-> dry, io |-> io, out |-> ret.out, before |-> gitignore]
    /\ gPc' = "done"
    /\ UNCHANGED <<gAuthored, gGlobal>>
    /\ UNCHANGED notGitignore

\* the sequences of at most n user lines
UserText(n) == UNION { [1..k -> UserLines] : k \in 0..n }

\* the shipped gitignore.global, as the list of its rules
GlobalList == EssentialList \o <<"*.log">>

\* a repository without .gitignore, or with one the user wrote lines in: above
\* a managed block written by an earlier fix, below its rules, or with no
\* managed block at all
GitignoreInit ==
    /\ gPc = "ready"
    /\ gGlobal \in {<<>>, GlobalList}
    /\ gOutcome = [dry |-> FALSE, io |-> "ok", out |-> "", before |-> [exists |-> FALSE, lines |-> <<>>]]
    /\ \/ /\ gAuthored = [before |-> <<>>, after |-> <<>>]
          /\ gitignore = [exists |-> FALSE, lines |-> <<>>]
       \/ /\ gAuthored \in [before : UserText(MaxLines), after : {<<>>}]
          /\ gitignore = [exists |-> TRUE, lines |-> gAuthored.before]
       \/ /\ gAuthored \in [before : UserText(MaxLines), after : UserText(MaxLines)]
          /\ \E synced \in {EssentialList, GlobalList, <<"*.pyc">>} :
               gitignore = [exists |-> TRUE,
                            lines |-> gAuthored.before \o _build_managed_block(synced)
                                        \o gAuthored.after]

GitignoreNext == CallGitignoreFix

\* the .gitignore variables while something else runs
GitignoreIdle ==
    /\ gPc = "idle"
    /\ gitignore = [exists |-> FALSE, lines |-> <<>>]
    /\ gAuthored = [before |-> <<>>, after |-> <<>>]
    /\ gGlobal = <<>>
    /\ gOutcome = [dry |-> FALSE, io |-> "ok", out |-> "", before |-> [exists |-> FALSE, lines |-> <<>>]]

(***************************************************************************)
(* rules/workflows_passing.py on a map of workflow conclusions             *)
(***************************************************************************)
\* the workflows of the repository, in sorted order
WorkflowNames == <<"CI", "PII Scan">>

Conclusions == {"success", "failure", "cancelled"}

\* the dicts get_workflow_conclusions can return
ConclusionMaps == UNION { [S -> Conclusions] : S \in SUBSET Range(WorkflowNames) }

NoConclusions == [n \in {} |-> "success"]

\* github.py: the adapter answers {} when gh exits non-zero or times out
WorkflowConclusions(remote, io) == IF io = "ok" THEN remote ELSE NoConclusions

\* Every workflow counted as failed.
FailedWorkflowsAll(conclusions) == DOMAIN conclusions

\* line 30: failed = {name: c for name, c in conclusions.items() if c != "success"}
FailedWorkflows(conclusions) == {n \in DOMAIN conclusions : conclusions[n] # "success"}

\* line 33: the (name, conclusion) pairs of the message, sorted by name
FailedDetails(conclusions) ==
    LET names == SelectSeq(WorkflowNames, LAMBDA n : n \in FailedWorkflows(conclusions))
    IN  [i \in 1..Len(names) |-> <<names[i], conclusions[names[i]]>>]

\* WorkflowsPassingRule.check; `live` says whether get_workflow_conclusions
\* was called
WorkflowsCheck(auth, prefetch, remote, io) ==
    IF ~auth THEN [status |-> "SKIP", details |-> <<>>, live |-> FALSE]
    ELSE LET live == ~prefetch.set
             conclusions == IF prefetch.set THEN prefetch.value
                            ELSE WorkflowConclusions(remote, io)
         IN  IF conclusions = NoConclusions
             THEN [status |-> "SKIP", details |-> <<>>, live |-> live]
             ELSE IF FailedWorkflows(conclusions) = {}
             THEN [status |-> "PASS", details |-> <<>>, live |-> live]
             ELSE [status |-> "FAIL", details |-> FailedDetails(conclusions), live |-> live]

\* engine.py lines 161-165: _fetch_wf stores what the adapter answered
PrefetchConclusions ==
    /\ wPc = "ready"
    /\ ~wPrefetch.set
    /\ \E io \in {"ok", "get_fail"} :
         wPrefetch' = [set |-> TRUE, value |-> WorkflowConclusions(wRemote, io)]
    /\ UNCHANGED <<wPc, wAuth, wRemote, wResult>>
    /\ UNCHANGED notWorkflow

\* on GitHub a run of workflow n completes with conclusion c
RunCompletes(n, c) ==
    /\ wPc = "ready"
    /\ wRemote' = [m \in (DOMAIN wRemote) \cup {n} |-> IF m = n THEN c ELSE wRemote[m]]
    /\ wRemote' # wRemote
    /\ UNCHANGED <<wPc, wAuth, wPrefetch, wResult>>
    /\ UNCHANGED notWorkflow

\* rule.check(repo)
CallWorkflowsCheck ==
    /\ wPc = "ready"
    /\ \E io \in {"ok", "get_fail"} :
         wResult' = [io |-> io, result |-> WorkflowsCheck(wAuth, wPrefetch, wRemote, io)]
    /\ wPc' = "done"
    /\ UNCHANGED <<wAuth, wRemote, wPrefetch>>
    /\ UNCHANGED notWorkflow

NoWorkflowResult ==
    [io |-> "ok", result |-> [status |-> "", details |-> <<>>, live |-> FALSE]]

\* a Repo object just constructed, whose repository has workflows
WorkflowInit ==
    /\ wPc = "ready"
    /\ wAuth \in BOOLEAN
    /\ wRemote \in ConclusionMaps
    /\ wPrefetch = [set |-> FALSE, value |-> NoConclusions]
    /\ wResult = NoWorkflowResult

WorkflowNext ==
    \/ PrefetchConclusions
    \/ \E n \in Range(WorkflowNames), c \in Conclusions : RunCompletes(n, c)
    \/ CallWorkflowsCheck

\* the WORKFLOWS_PASSING variables while something else runs
WorkflowIdle ==
    /\ wPc = "idle"
    /\ wAuth = FALSE
    /\ wRemote = NoConclusions
    /\ wPrefetch = [set |-> FALSE, value |-> NoConclusions]
    /\ wResult = NoWorkflowResult

(***************************************************************************)
(* gitguard/progress.py: ProgressBar under the workers of engine.py         *)
(***************************************************************************)
\* A lock anyone can take at any time.
LockAvailableAlways(lock) == TRUE

\* threading.Lock: `with self._lock` enters only while nobody holds it
LockAvailable(lock) == lock = 0

BarTasks == 1..pbInput.repos

At(t, where) == pbTask[t].pc = where

Goto(t, where) == pbTask' = [pbTask EXCEPT ![t].pc = where]

\* engine.py lines 181-224: what _process_repo does once a rule is dealt
\* with: the next rule, or return rr
NextRule(t) ==
    IF pbTask[t].idx < pbInput.rules
    THEN [pbTask[t] EXCEPT !.pc = "update", !.idx = @ + 1]
    ELSE [pbTask[t] EXCEPT !.pc = "done"]

\* update, line 30: with self._lock
UpdateAcquire(t) ==
    /\ pbPc = "run" /\ At(t, "update")
    /\ LockAvailable(pbLock)
    /\ pbLock' = t
    /\ Goto(t, "upd_read")
    /\ UNCHANGED <<pbPc, pbInput, pbTotal, pbStep, pbCalls, pbPhased>>
    /\ UNCHANGED notProgress

\* update, line 31: self.step += 1 reads self.step ...
UpdateRead(t) ==
    /\ pbPc = "run" /\ At(t, "upd_read")
    /\ pbTask' = [pbTask EXCEPT ![t].pc = "upd_write", ![t].tmp = pbStep]
    /\ UNCHANGED <<pbPc, pbInput, pbTotal, pbStep, pbLock, pbCalls, pbPhased>>
    /\ UNCHANGED notProgress

\* ... and stores the sum
UpdateWrite(t) ==
    /\ pbPc = "run" /\ At(t, "upd_write")
    /\ pbStep' = pbTask[t].tmp + 1
    /\ Goto(t, "upd_draw")
    /\ UNCHANGED <<pbPc, pbInput, pbTotal, pbLock, pbCalls, pbPhased>>
    /\ UNCHANGED notProgress

\* update, line 32 and the end of the with block: _draw returns, or the
\* write to stderr raises and _process_repo leaves its rule loop
UpdateDraw(t) ==
    /\ pbPc = "run" /\ At(t, "upd_draw")
    /\ pbLock' = IF pbLock = t THEN 0 ELSE pbLock
    /\ pbCalls' = pbCalls + 1
    /\ \E drawn \in BOOLEAN : Goto(t, IF drawn THEN "rule" ELSE "done")
    /\ UNCHANGED <<pbPc, pbInput, pbTotal, pbStep, pbPhased>>
    /\ UNCHANGED notProgress

\* engine.py lines 184-221: the rule is skipped, passes or raises, or its
\* check fails and set_phase("Fixing") is called; after the fix the result is
\* recorded, or set_phase("Verifying") is called
RuleStep(t) ==
    /\ pbPc = "run"
    /\ \/ /\ At(t, "rule")
          /\ \E to \in {"next", "raise", "phase_fix"} :
               pbTask' = [pbTask EXCEPT ![t] =
                   CASE to = "next" -> NextRule(t)
                     [] to = "raise" -> [pbTask[t] EXCEPT !.pc = "done"]
                     [] OTHER -> [pbTask[t] EXCEPT !.pc = "phase_fix"]]
       \/ /\ At(t, "fix")
          /\ \E to \in {"next", "raise", "phase_verify"} :
               pbTask' = [pbTask EXCEPT ![t] =
                   CASE to = "next" -> NextRule(t)
                     [] to = "raise" -> [pbTask[t] EXCEPT !.pc = "done"]
                     [] OTHER -> [pbTask[t] EXCEPT !.pc = "phase_verify"]]
       \/ /\ At(t, "verify")
          /\ \E to \in {"next", "raise"} :
               pbTask' = [pbTask EXCEPT ![t] =
                   IF to = "next" THEN NextRule(t) ELSE [pbTask[t] EXCEPT !.pc = "done"]]
    /\ UNCHANGED <<pbPc, pbInput, pbTotal, pbStep, pbLock, pbCalls, pbPhased>>
    /\ UNCHANGED notProgress

\* set_phase, line 36: with self._lock
PhaseAcquire(t) ==
    /\ pbPc = "run"
    /\ At(t, "phase_fix") \/ At(t, "phase_verify")
    /\ LockAvailable(pbLock)
    /\ pbLock' = t
    /\ Goto(t, IF At(t, "phase_fix") THEN "draw_fix" ELSE "draw_verify")
    /\ UNCHANGED <<pbPc, pbInput, pbTotal, pbStep, pbCalls, pbPhased>>
    /\ UNCHANGED notProgress

\* set_phase, line 37 and the end of the with block
PhaseDraw(t) ==
    /\ pbPc = "run"
    /\ At(t, "draw_fix") \/ At(t, "draw_verify")
    /\ pbLock' = IF pbLock = t THEN 0 ELSE pbLock
    /\ pbPhased' = pbPhased + 1
    /\ \E drawn \in BOOLEAN :
         Goto(t, IF ~drawn THEN "done"
                 ELSE IF At(t, "draw_fix") THEN "fix" ELSE "verify")
    /\ UNCHANGED <<pbPc, pbInput, pbTotal, pbStep, pbCalls>>
    /\ UNCHANGED notProgress

\* engine.py line 170: ProgressBar(len(repos) * len(rules)), then the pool
\* starts _process_repo for every repository
ProgressInit ==
    /\ pbPc = "run"
    /\ pbInput \in [repos : 1..MaxBarRepos, rules : 0..MaxBarRules]
    /\ pbTotal = pbInput.repos * pbInput.rules
    /\ pbStep = 0
    /\ pbLock = 0
    /\ pbTask = [t \in 1..pbInput.repos |->
                   IF pbInput.rules = 0 THEN [pc |-> "done", idx |-> 0, tmp |-> 0]
                   ELSE [pc |-> "update", idx |-> 1, tmp |-> 0]]
    /\ pbCalls = 0
    /\ pbPhased = 0

ProgressNext ==
    \E t \in BarTasks :
        \/ UpdateAcquire(t)
        \/ UpdateRead(t)
        \/ UpdateWrite(t)
        \/ UpdateDraw(t)
        \/ RuleStep(t)
        \/ PhaseAcquire(t)
        \/ PhaseDraw(t)

\* the progress bar while something else runs
ProgressIdle ==
    /\ pbPc = "idle"
    /\ pbInput = [repos |-> 0, rules |-> 0]
    /\ pbTotal = 0
    /\ pbStep = 0
    /\ pbLock = 0
    /\ pbTask = <<>>
    /\ pbCalls = 0
    /\ pbPhased = 0

\* nothing printed yet
StdoutIdle == stdout = <<>>

(***************************************************************************)
(* engine.py lines 105-143: the clone phase, worker by worker              *)
(***************************************************************************)
\* the repositories of the organisation missing under repos_dir, sorted
CloneNames == <<"alpha", "beta", "gamma">>

ToClone == {cToClone[i] : i \in 1..Len(cToClone)}

\* An exception of clone_repo that ends the worker without a record.
AfterCloneRaiseDropped(outcome) ==
    CASE outcome = "ok" -> "append_cloned"
      [] outcome = "raise" -> "done"
      [] OTHER -> "want_lock"

\* lines 125-140: returncode 0 leads to cloned.append, a non-zero returncode
\* and the except clause both lead to `with errors_lock`
AfterClone(outcome) == IF outcome = "ok" THEN "append_cloned" ELSE "want_lock"

\* lines 115-119: `for name in to_clone: cloned.append(name)` of a dry run,
\* one iteration
CloneDryAppend ==
    /\ cPc = "clone" /\ cDry
    /\ Len(cCloned) < Len(cToClone)
    /\ cCloned' = Append(cCloned, cToClone[Len(cCloned) + 1])
    /\ UNCHANGED <<cPc, cDry, cToClone, cTask, cErrors, cLock, cDisk>>
    /\ UNCHANGED notClone

\* lines 124-126: a pool worker takes name n and git.clone_repo returns 0,
\* returns non-zero or raises
CloneRun(n) ==
    /\ cPc = "clone" /\ ~cDry
    /\ n \in ToClone /\ cTask[n] = "queued"
    /\ \E outcome \in {"ok", "fail", "raise"} :
         /\ cTask' = [cTask EXCEPT ![n] = AfterClone(outcome)]
         /\ cDisk' = IF outcome = "ok" THEN cDisk \cup {n} ELSE cDisk
    /\ UNCHANGED <<cPc, cDry, cToClone, cCloned, cErrors, cLock>>
    /\ UNCHANGED notClone

\* line 130: cloned.append(name), one list.append outside any lock
CloneAppendCloned(n) ==
    /\ cPc = "clone"
    /\ n \in ToClone /\ cTask[n] = "append_cloned"
    /\ cCloned' = Append(cCloned, n)
    /\ cTask' = [cTask EXCEPT ![n] = "done"]
    /\ UNCHANGED <<cPc, cDry, cToClone, cErrors, cLock, cDisk>>
    /\ UNCHANGED notClone

\* lines 134 and 139: with errors_lock
CloneLockErrors(n) ==
    /\ cPc = "clone"
    /\ n \in ToClone /\ cTask[n] = "want_lock"
    /\ cLock = ""
    /\ cLock' = n
    /\ cTask' = [cTask EXCEPT ![n] = "append_error"]
    /\ UNCHANGED <<cPc, cDry, cToClone, cCloned, cErrors, cDisk>>
    /\ UNCHANGED notClone

\* lines 135 and 140: clone_errors.append(name), then the lock is released
CloneAppendError(n) ==
    /\ cPc = "clone"
    /\ n \in ToClone /\ cTask[n] = "append_error"
    /\ cErrors' = Append(cErrors, n)
    /\ cLock' = ""
    /\ cTask' = [cTask EXCEPT ![n] = "done"]
    /\ UNCHANGED <<cPc, cDry, cToClone, cCloned, cDisk>>
    /\ UNCHANGED notClone

\* lines 119 and 142-143: the for loop is through, or the `with` block of
\* the pool is left once every worker returned
ClonePhaseEnds ==
    /\ cPc = "clone"
    /\ IF cDry THEN Len(cCloned) = Len(cToClone)
       ELSE \A n \in ToClone : cTask[n] = "done"
    /\ cPc' = "ended"
    /\ UNCHANGED <<cDry, cToClone, cTask, cCloned, cErrors, cLock, cDisk>>
    /\ UNCHANGED notClone

\* lines 106-112: cloned = [], clone_errors = [], to_clone computed
CloneInit ==
    /\ cPc = "clone"
    /\ cDry \in BOOLEAN
    /\ cToClone \in {SubSeq(CloneNames, 1, k) : k \in 0..Len(CloneNames)}
                    \cup {<<"beta">>, <<"alpha", "gamma">>}
    /\ cTask = [n \in Range(CloneNames) |-> "queued"]
    /\ cCloned = <<>>
    /\ cErrors = <<>>
    /\ cLock = ""
    /\ cDisk = {}

CloneNext ==
    \/ CloneDryAppend
    \/ \E n \in Range(CloneNames) :
         \/ CloneRun(n)
         \/ CloneAppendCloned(n)
         \/ CloneLockErrors(n)
         \/ CloneAppendError(n)
    \/ ClonePhaseEnds

\* the clone phase while something else runs
CloneIdle ==
    /\ cPc = "idle"
    /\ cDry = FALSE
    /\ cToClone = <<>>
    /\ cTask = [n \in Range(CloneNames) |-> "queued"]
    /\ cCloned = <<>>
    /\ cErrors = <<>>
    /\ cLock = ""
    /\ cDisk = {}

(***************************************************************************)
(* engine.py lines 180-224: the rule loop on one repository, once with     *)
(* dry_run=True and once with dry_run=False from the same working tree     *)
(***************************************************************************)
Modes == {"dry", "real"}

\* a README without license section in a clean clone that has no LICENSE
UnlicensedRepo == Tree({"README.md"}, FALSE, FALSE, "a tagline", {}, {}, FALSE)

\* the classes registered for these runs
SoloInstances ==
    [id \in {"LICENSE_EXISTS", "README_EXISTS", "README_LICENSE", "PENDING_COMMITS",
             "GITIGNORE_EXISTS"} |->
       CASE id = "LICENSE_EXISTS"   -> "file_exists.LicenseExistsRule"
         [] id = "README_EXISTS"    -> "readme_exists.ReadmeExistsRule"
         [] id = "README_LICENSE"   -> "readme_content.ReadmeLicenseRule"
         [] id = "PENDING_COMMITS"  -> "pending_commits.PendingCommitsRule"
         [] OTHER                   -> "gitignore_exists.GitignoreExistsRule"]

\* lines 181-221 for one rule: the status recorded, the tree and the remote
\* description left behind, or the exception that leaves the loop
EvaluateRule(rule, st, desc, e, dry, at, io) ==
    LET Io(op) == IF at = op THEN io ELSE "ok"
        applies == RuleAppliesTo(rule, st, [has_ci_workflow |-> "unset"])
        result == RuleCheck(rule, st, desc, e, Io("check"))
        ret == RuleFix(rule, st, desc, e, dry, Io("fix"))
        verify == RuleCheck(rule, ret.st, ret.desc, e, Io("verify"))
        Out(status, s2, d2) == [status |-> status, st |-> s2, desc |-> d2, raised |-> FALSE]
        Raised(s2, d2) == [status |-> "failed", st |-> s2, desc |-> d2, raised |-> TRUE]
    IN  IF ~applies THEN Out("skip", st, desc)
        ELSE IF result.raised THEN Raised(st, desc)
        ELSE IF result.status = "PASS" THEN Out("pass", st, desc)
        ELSE IF result.status = "SKIP" THEN Out("skip", st, desc)
        ELSE IF ret.raised THEN Raised(ret.st, ret.desc)
        ELSE IF ret.out.status = "fixed"
        THEN IF ~Verifies(dry) THEN Out("fixed", ret.st, ret.desc)
             ELSE IF verify.raised THEN Raised(ret.st, ret.desc)
             ELSE Out(VerifyStatus(verify), ret.st, ret.desc)
        ELSE Out(FixStatus(ret.out), ret.st, ret.desc)

\* the operations of rule id that call out, and how each call can fail
SoloFaults(id) ==
    {<<"none", "ok">>}
      \cup {<<"check", io>> : io \in IoFaults(id, "check")}
      \cup {<<"fix", io>> : io \in IoFaults(id, "fix")}
      \cup {<<"verify", io>> : io \in IoFaults(id, "check")}

\* one iteration of `for rule in rules`, or the except clause of line 222
SoloStep(mode) ==
    /\ sPc = "run"
    /\ sRun[mode].idx <= Len(sRules)
    /\ LET run == sRun[mode]
           rule == sRules[run.idx]
       IN  \E f \in SoloFaults(rule.id) :
             LET ev == EvaluateRule(rule, run.st, run.desc, sEnv, mode = "dry", f[1], f[2])
             IN  /\ f[1] = "none" \/ run.faults < MaxFaults
                 /\ f[1] = "none"
                      \/ ev # EvaluateRule(rule, run.st, run.desc, sEnv, mode = "dry",
                                           "none", "ok")
                 /\ sRun' = [sRun EXCEPT ![mode] =
                      [st |-> ev.st, desc |-> ev.desc,
                       results |-> Append(run.results,
                                     IF ev.raised THEN RuleResult("INTERNAL", "failed", "")
                                     ELSE RuleResult(rule.id, ev.status, "")),
                       idx |-> IF ev.raised THEN Len(sRules) + 1 ELSE run.idx + 1,
                       faults |-> IF f[1] = "none" THEN run.faults ELSE run.faults + 1]]
    /\ UNCHANGED <<sPc, sRules, sEnv, sStart>>
    /\ UNCHANGED notSolo

\* the runs are through
SoloDone(mode) == sRun[mode].idx > Len(sRules)

\* what run() returns for the one repository
SoloExit(mode) == _output_summary(<<sRun[mode].results>>)

SoloInit ==
    /\ sPc = "run"
    /\ sRules = OrderRules(SoloInstances)
    /\ sEnv \in Envs
    /\ sStart \in RepoStates \cup {UnlicensedRepo}
    /\ sRun = [mode \in Modes |->
                 [st |-> sStart, desc |-> "", results |-> <<>>, idx |-> 1, faults |-> 0]]

SoloNext == \E mode \in Modes : SoloStep(mode)

\* the variables of the two runs while something else runs
SoloIdle ==
    /\ sPc = "idle"
    /\ sRules = <<>>
    /\ sEnv = [ghAuth |-> FALSE, globalAllow |-> {}]
    /\ sStart = NoTree
    /\ sRun = [mode \in Modes |->
                 [st |-> NoTree, desc |-> "", results |-> <<>>, idx |-> 1, faults |-> 0]]

AuxIdle ==
    ManifestIdle /\ PoolIdle /\ GitignoreIdle /\ WorkflowIdle /\ ProgressIdle /\ StdoutIdle /\ CloneIdle /\ SoloIdle

(***************************************************************************)
(* Specifications                                                          *)
(***************************************************************************)
\* the runner's variables while only the registry runs
RunIdle ==
    /\ dry_run = FALSE /\ json_output = FALSE /\ rules = <<>> /\ runPc = "idle"
    /\ localDirs = {} /\ non_archived = {} /\ archived_names = NoArchivedNames
    /\ to_clone = <<>> /\ cloned = <<>> /\ clone_errors = <<>>
    /\ repos = <<>> /\ queue = <<>> /\ worker = << >>
    /\ pc = [n \in NameSet |-> "absent"]
    /\ idx = [n \in NameSet |-> 1]
    /\ pending = [n \in NameSet |-> NoPending]
    /\ rr = [n \in NameSet |-> <<>>]
    /\ repo_results = <<>> /\ exitCode = "none"
    /\ fs = [n \in NameSet |-> NoTree]
    /\ cache = [n \in NameSet |-> [has_ci_workflow |-> "unset"]]
    /\ remoteDesc = [n \in NameSet |-> ""]
    /\ env = [ghAuth |-> FALSE, globalAllow |-> {}, live |-> {}, archived |-> {}]
    /\ fetched = {} /\ faults = 0
    /\ fs0 = fs /\ remoteDesc0 = remoteDesc /\ localDirs0 = localDirs
    /\ log = [n \in NameSet |-> <<>>]

\* the registry's variables while something else runs
RegIdle ==
    /\ regPc = "idle" /\ registered = {} /\ visited = {}
    /\ instances = << >> /\ ordered = << >>

RegInit ==
    /\ AuxIdle
    /\ RunIdle
    /\ DiscIdle
    /\ RuleIdle
    /\ regPc = "import"
    /\ registered = {}
    /\ visited = {}
    /\ instances = << >>
    /\ ordered = << >>

RegNext ==
    \/ \E c \in RuleClasses : ImportRule(c)
    \/ AllSubclasses
    \/ \E c \in RuleClasses : CollectOne(c)
    \/ ReturnOrdered

\* RuleRunner(repos_dir) constructed, run(dry_run, json_output) about to start
Init ==
    /\ AuxIdle
    /\ \E inst \in PossibleInstances(RunnerClasses) :
         /\ regPc = "done"
         /\ registered = RunnerClasses
         /\ visited = RunnerClasses
         /\ instances = inst
         /\ ordered = OrderRules(inst)
         /\ rules = OrderRules(inst)
    /\ DiscIdle
    /\ RuleIdle
    /\ dry_run \in BOOLEAN
    /\ json_output \in BOOLEAN
    /\ runPc = "start"
    /\ \E w \in Worlds, e \in Envs :
         /\ localDirs = w.local
         /\ env = [ghAuth |-> e.ghAuth, globalAllow |-> e.globalAllow,
                   live |-> w.live, archived |-> w.archived]
         /\ fs \in { f \in [NameSet -> RepoStates \cup {NoTree}] :
                       \A n \in NameSet : IF n \in w.local THEN f[n] \in StartStates(n)
                                          ELSE f[n] = NoTree }
    /\ remoteDesc = [n \in NameSet |-> IF n = "alpha" THEN "a tagline" ELSE "old text"]
    /\ non_archived = {} /\ archived_names = NoArchivedNames
    /\ to_clone = <<>> /\ cloned = <<>> /\ clone_errors = <<>>
    /\ repos = <<>> /\ queue = <<>> /\ worker = << >>
    /\ pc = [n \in NameSet |-> "absent"]
    /\ idx = [n \in NameSet |-> 1]
    /\ pending = [n \in NameSet |-> NoPending]
    /\ rr = [n \in NameSet |-> <<>>]
    /\ repo_results = <<>> /\ exitCode = "none"
    /\ cache = [n \in NameSet |-> [has_ci_workflow |-> "unset"]]
    /\ fetched = {} /\ faults = 0
    /\ fs0 = fs /\ remoteDesc0 = remoteDesc /\ localDirs0 = localDirs
    /\ log = [n \in NameSet |-> <<>>]

Next ==
    \/ FetchOrgMetadata
    \/ CloneDryRun
    \/ \E n \in NameSet : CloneOne(n)
    \/ Discover
    \/ \E w \in DOMAIN worker : StartRepo(w)
    \/ \E r \in NameSet : ProbeDirty(r)
    \/ \E r \in NameSet : FetchAll(r)
    \/ \E r \in NameSet : Apply(r)
    \/ \E r \in NameSet : Check(r)
    \/ \E r \in NameSet : Fix(r)
    \/ \E r \in NameSet : Verify(r)
    \/ GatherResults
    \/ GatherRaises
    \/ RunRaises
    \/ Render

vars == <<regVars, runVars, worldVars, histVars, unitVars>>

\* Repo.discover(repos_dir, filter_pattern, skip_archived, archived_names) called
DiscInit ==
    /\ AuxIdle
    /\ RegIdle
    /\ RunIdle
    /\ RuleIdle
    /\ dCall \in [filter_pattern : Filters, skip_archived : BOOLEAN,
                  archived_names : {NoArchivedNames,
                                    [given |-> TRUE, names |-> {"app"}]}]
    /\ dDisk \in [root_is_dir : BOOLEAN, children : [DirNames -> ChildKinds]]
    /\ ~dDisk.root_is_dir => \A n \in DirNames : dDisk.children[n] = "absent"
    /\ dGh \in [ok : BOOLEAN, archived : {{}, {"app"}, {"Zed", "lib"}}]
    /\ dPc = "call" /\ dTodo = <<>> /\ dRepos = <<>> /\ dQueried = {}

DiscNext ==
    \/ DiscoverEnter
    \/ DiscoverVisit
    \/ DiscoverReturn

\* a Repo object constructed on a repository, one rule about to be driven on it
RuleInit ==
    /\ AuxIdle
    /\ RegIdle
    /\ RunIdle
    /\ DiscIdle
    /\ uPc = "ready"
    /\ \E rule \in UnitRules :
         /\ uEnv \in [rule : {rule},
                      ghAuth : IF rule \in {"REPO_DESCRIPTION", "gitguard.REPO_DESCRIPTION",
                                            "WORKFLOWS_PASSING"}
                               THEN BOOLEAN ELSE {TRUE},
                      globalIgnore : IF rule = "GITIGNORE" THEN {{}, GITIGNORE_GLOBAL}
                                     ELSE {{}}]
         /\ uWorld \in [tree : UnitTrees(rule), other : {SiblingTree},
                        home : [allow : UnitHomes(rule)], remote : UnitRemotes(rule)]
    /\ uRepo = NewRepo
    /\ uLog = <<>>

RuleNext ==
    \/ Prefetch
    \/ \E rule \in UnitRules \cup {"PII_SCAN"} : CallAppliesTo(rule)
    \/ CallCheck
    \/ CallFix

SpecRegistry == RegInit /\ [][RegNext]_vars

SpecRules == RuleInit /\ [][RuleNext]_vars

\* everything but the registry, while one of the small harnesses runs
OthersIdle == RegIdle /\ RunIdle /\ DiscIdle /\ RuleIdle

\* one Repo object whose manifest rules are evaluated, everything else idle
ManifestStart == OthersIdle /\ PoolIdle /\ GitignoreIdle /\ WorkflowIdle /\ ProgressIdle /\ StdoutIdle /\ CloneIdle /\ SoloIdle /\ ManifestInit

SpecManifest == ManifestStart /\ [][ManifestNext]_vars

\* one run of the three thread pools, everything else idle
PoolsStart == OthersIdle /\ ManifestIdle /\ GitignoreIdle /\ WorkflowIdle /\ ProgressIdle /\ StdoutIdle /\ CloneIdle /\ SoloIdle /\ PoolInit

SpecPools == PoolsStart /\ [][PoolNext]_vars

\* one call of GitignoreRule.fix, everything else idle
GitignoreStart == OthersIdle /\ ManifestIdle /\ PoolIdle /\ WorkflowIdle /\ ProgressIdle /\ StdoutIdle /\ CloneIdle /\ SoloIdle /\ GitignoreInit

SpecGitignore == GitignoreStart /\ [][GitignoreNext]_vars

\* one Repo object checked by WORKFLOWS_PASSING, everything else idle
WorkflowStart == OthersIdle /\ ManifestIdle /\ PoolIdle /\ GitignoreIdle /\ ProgressIdle /\ StdoutIdle /\ CloneIdle /\ SoloIdle /\ WorkflowInit

SpecWorkflows == WorkflowStart /\ [][WorkflowNext]_vars

\* one progress bar and the workers that report to it, everything else idle
ProgressStart ==
    OthersIdle /\ ManifestIdle /\ PoolIdle /\ GitignoreIdle /\ WorkflowIdle /\ StdoutIdle /\ CloneIdle /\ SoloIdle /\ ProgressInit

SpecProgress == ProgressStart /\ [][ProgressNext]_vars

\* the clone phase of one run, everything else idle
CloneStart ==
    OthersIdle /\ ManifestIdle /\ PoolIdle /\ GitignoreIdle /\ WorkflowIdle /\ ProgressIdle /\ StdoutIdle /\ SoloIdle /\ CloneInit

SpecClone == CloneStart /\ [][CloneNext]_vars

\* one repository run dry and real, everything else idle
SoloStart ==
    OthersIdle /\ ManifestIdle /\ PoolIdle /\ GitignoreIdle /\ WorkflowIdle /\ ProgressIdle /\ StdoutIdle /\ CloneIdle /\ SoloInit

SpecSolo == SoloStart /\ [][SoloNext]_vars

PackageNext ==
    \/ ImportPackage
    \/ AllSubclasses
    \/ \E c \in PackageClasses : CollectPackageClass(c)
    \/ ReturnOrdered

SpecPackage == RegInit /\ [][PackageNext]_vars

SpecDiscover == DiscInit /\ [][DiscNext]_vars

Spec == Init /\ [][Next]_vars

(***************************************************************************)
(* Properties                                                              *)
(***************************************************************************)
HasLog(r, id, op, out) == \E k \in 1..Len(log[r]) : log[r][k] = LogEntry(id, op, out)
StatusesOf(r, id) == {rr[r][i].status : i \in {j \in 1..Len(rr[r]) : rr[r][j].rule_id = id}}
Unresolved == {"manual", "failed", "fix_failed"}
RuleIds == {rules[i].id : i \in 1..Len(rules)}
RuleIndex(id) == CHOOSE i \in 1..Len(rules) : rules[i].id = id

\* C1: in a non-dry run a pair is recorded "fixed" only after its check
\* returned FAIL, its fix returned FIXED and the check run after the fix
\* returned PASS, these three calls following one another; and a re-check
\* that returns anything but PASS makes the pair "fix_failed".
C1_FixedOnlyAfterVerifiedFix ==
    ~dry_run =>
      \A r \in NameSet :
        /\ \A i \in 1..Len(rr[r]) :
             rr[r][i].status = "fixed" =>
               \E k \in 1..(Len(log[r]) - 2) :
                 /\ log[r][k]     = LogEntry(rr[r][i].rule_id, "check", "FAIL")
                 /\ log[r][k + 1] = LogEntry(rr[r][i].rule_id, "fix", "fixed")
                 /\ log[r][k + 2] = LogEntry(rr[r][i].rule_id, "verify", "PASS")
        /\ \A k \in 1..Len(log[r]) :
             (log[r][k].op = "verify" /\ log[r][k].out \notin {"PASS", "RAISE"}) =>
               StatusesOf(r, log[r][k].rule) = {"fix_failed"}

\* a non-dry run in which one pair ended "fixed" and another "fix_failed"
C1_Witness ==
    /\ ~dry_run
    /\ runPc = "returned"
    /\ \E r \in NameSet : \E i, j \in 1..Len(rr[r]) :
         rr[r][i].status = "fixed" /\ rr[r][j].status = "fix_failed"

\* C2 as stated: in a dry run a failing check is never followed by the Fix
\* step, is never reported "fixed", and keeps the run from returning 0.
C2_DryRunNeverFixes ==
    dry_run =>
      /\ \A r \in NameSet :
           /\ \A k \in 1..Len(log[r]) : log[r][k].op # "fix"
           /\ \A i \in 1..Len(rr[r]) : rr[r][i].status # "fixed"
      /\ (runPc = "returned" /\ exitCode = 0) =>
           \A r \in NameSet : \A k \in 1..Len(log[r]) :
              ~(log[r][k].op = "check" /\ log[r][k].out = "FAIL")

C3_Statuses ==
    \A r \in NameSet :
      /\ \A i \in 1..Len(rr[r]) :
           /\ rr[r][i].status \in {"pass", "skip", "fixed", "fix_failed", "manual", "failed"}
           /\ \A j \in 1..Len(rr[r]) : rr[r][j].rule_id = rr[r][i].rule_id => j = i
      /\ \A k \in 1..Len(log[r]) :
           LET e == log[r][k] IN
           /\ (e.op = "fix" /\ e.out = "already_ok") => StatusesOf(r, e.rule) = {"pass"}
           /\ (e.op = "fix" /\ e.out \in {"manual", "skipped"}) => StatusesOf(r, e.rule) = {"manual"}
           /\ (e.op = "fix" /\ e.out = "failed") => StatusesOf(r, e.rule) = {"failed"}

C3_Stable ==
    \A r \in NameSet :
      /\ Len(rr'[r]) >= Len(rr[r])
      /\ SubSeq(rr'[r], 1, Len(rr[r])) = rr[r]

ResultsSoFar == [i \in 1..Len(repos) |-> rr[repos[i]]]

\* C4: run returns non-zero exactly when some result of some audited
\* repository is manual, failed or fix_failed; and the summary rendering and
\* the JSON rendering give the same exit code for the same results.
C4_ExitCodeIffUnresolved ==
    /\ runPc = "returned" =>
         exitCode = IF \E r \in NameSet : \E i \in 1..Len(rr[r]) :
                          InRepos(r) /\ rr[r][i].status \in Unresolved
                    THEN 1 ELSE 0
    /\ _output_summary(ResultsSoFar) = _output_json(ResultsSoFar)

\* a real run that auto-fixed something and returned 0
C4_Witness ==
    /\ ~dry_run
    /\ runPc = "returned"
    /\ exitCode = 0
    /\ \E r \in NameSet : \E i \in 1..Len(rr[r]) : rr[r][i].status = "fixed"

\* C5 as stated: whatever raises while a repository is processed, the
\* run goes on to return an exit code and that repository ends with an
\* INTERNAL failed result.
C5_RunSurvivesAnyException ==
    /\ runPc \notin {"aborting", "raised"}
    /\ \A r \in NameSet :
         (\E k \in 1..Len(log[r]) : log[r][k].out \in {"raise", "RAISE"}) =>
            /\ pc[r] # "raised"
            /\ pc[r] = "done" => "INTERNAL" \in {rr[r][i].rule_id : i \in 1..Len(rr[r])}

\* C6: a dry run changes no working tree, runs no git fetch, clones nothing
\* and leaves every remote description alone.
C6_DryRunChangesNothing ==
    dry_run =>
      /\ fs = fs0
      /\ localDirs = localDirs0
      /\ remoteDesc = remoteDesc0
      /\ fetched = {}

\* a finished dry run that named a repository to clone and in which a fix
\* answered FIXED
C6_Witness ==
    /\ dry_run
    /\ runPc = "returned"
    /\ cloned # <<>>
    /\ \E r \in NameSet, a \in RuleIds : HasLog(r, a, "fix", "fixed")

OpRank(op) ==
    CASE op = "is_dirty" -> 1 [] op = "fetch_all" -> 2
      [] op = "applies_to" -> 1 [] op = "check" -> 2 [] op = "fix" -> 3
      [] op = "verify" -> 4 [] OTHER -> 0

\* where a logged call stands in the sequential order of _process_repo
Before(a, b) ==
    LET ia == IF a.rule = "" THEN 0 ELSE RuleIndex(a.rule)
        ib == IF b.rule = "" THEN 0 ELSE RuleIndex(b.rule)
    IN  ia < ib \/ (ia = ib /\ OpRank(a.op) < OpRank(b.op))

\* C7: the calls made on one repository go rule by rule in registry order
\* (applies_to, check, fix, verify of rule k all before anything of rule k+1,
\* which starts only once rule k has its result); README_LICENSE, running
\* after LICENSE_EXISTS, finds the LICENSE that rule left; and no repository
\* is held by two workers.
C7_RulesSequentialPerRepo ==
    /\ \A r \in NameSet :
         /\ \A k \in 1..(Len(log[r]) - 1) : Before(log[r][k], log[r][k + 1])
         /\ \A b \in 1..Len(log[r]) :
              log[r][b].op = "applies_to" =>
                 \A j \in 1..(RuleIndex(log[r][b].rule) - 1) :
                    j <= Len(rr[r]) /\ rr[r][j].rule_id = rules[j].id
         /\ (StatusesOf(r, "LICENSE_EXISTS") \subseteq {"pass", "fixed"} /\ ~dry_run) =>
              ~HasLog(r, "README_LICENSE", "fix", "skipped") \/ "README.md" \notin fs[r].files
    /\ \A v, w \in DOMAIN worker : (v # w /\ worker[v] = worker[w]) => worker[v] = "idle"
    /\ \A r \in NameSet :
         pc[r] \in {"probe", "fetch", "apply", "check", "fix", "verify"} =>
            Cardinality({w \in DOMAIN worker : worker[w] = r}) = 1

\* two workers busy while one repository has had LICENSE created and then
\* the license section appended by the next rule's fix
C7_Witness ==
    /\ ~dry_run
    /\ \E v, w \in DOMAIN worker : v # w /\ worker[v] # "idle" /\ worker[w] # "idle"
    /\ \E r \in NameSet :
         /\ StatusesOf(r, "LICENSE_EXISTS") = {"fixed"}
         /\ StatusesOf(r, "README_LICENSE") = {"fixed"}

IndexOf(id) == CHOOSE i \in 1..Len(ordered) : ordered[i].id = id
IsOrdered(id) == \E i \in 1..Len(ordered) : ordered[i].id = id

\* tests/test_engine.py, test_dependency_ordering: the declared prerequisites
PrerequisitePairs ==
    { <<"GITIGNORE", "TRACKED_IGNORED">>, <<"README_EXISTS", "README_CURRENT">>,
      <<"README_EXISTS", "README_LICENSE">>, <<"README_EXISTS", "README_LOGO">>,
      <<"README_EXISTS", "README_CI_BADGE">>, <<"LICENSE_EXISTS", "README_LICENSE">>,
      <<"LOGO_EXISTS", "README_LOGO">>, <<"CLAUDE_MD_EXISTS", "CLAUDE_SANDBOX">>,
      <<"SETTINGS_DANGEROUS", "SETTINGS_CLEAN">>,
      <<"PYTHON_PYPROJECT", "PYTHON_MIN_VERSION">> }

\* C8: for every declared prerequisite pair (A, B) whose two rules are
\* registered, A comes before B in the list discover_rules() returns.
C8_PrerequisitesFirst ==
    regPc = "done" =>
      \A p \in PrerequisitePairs :
        ((\E c \in registered : c.id = p[1]) /\ (\E c \in registered : c.id = p[2])) =>
           /\ IsOrdered(p[1]) /\ IsOrdered(p[2])
           /\ IndexOf(p[1]) < IndexOf(p[2])

\* discover_rules() returned a prerequisite pair together with a rule that is
\* not in the canonical order
C8_Witness ==
    /\ regPc = "done"
    /\ \E p \in PrerequisitePairs : IsOrdered(p[1]) /\ IsOrdered(p[2])
    /\ \E i \in 1..Len(ordered) : ~InCanonical(ordered[i].id)
    /\ runPc = "idle"

CanonicalIndex(id) == CHOOSE i \in 1..Len(_CANONICAL_ORDER) : _CANONICAL_ORDER[i] = id

\* C9: discover_rules() returns every registered id exactly once, the
\* canonical ids first in canonical order, then the others sorted by id.
C9_EveryIdOnceCanonicalThenSorted ==
    regPc = "done" =>
      /\ {ordered[i].id : i \in 1..Len(ordered)} = {c.id : c \in registered} \ {""}
      /\ \A i, j \in 1..Len(ordered) : ordered[i].id = ordered[j].id => i = j
      /\ \A i, j \in 1..Len(ordered) :
           i < j =>
             \/ /\ InCanonical(ordered[i].id) /\ InCanonical(ordered[j].id)
                /\ CanonicalIndex(ordered[i].id) < CanonicalIndex(ordered[j].id)
             \/ InCanonical(ordered[i].id) /\ ~InCanonical(ordered[j].id)
             \/ /\ ~InCanonical(ordered[i].id) /\ ~InCanonical(ordered[j].id)
                /\ StrLess(IdChars(ordered[i].id), IdChars(ordered[j].id))

\* a canonical rule followed by two rules outside the canonical order
C9_Witness ==
    /\ regPc = "done"
    /\ Len(ordered) = 3
    /\ InCanonical(ordered[1].id)
    /\ ~InCanonical(ordered[2].id)
    /\ ~InCanonical(ordered[3].id)

\* every order in which the loop can visit the registered classes
IterationOrders ==
    { o \in [1..Cardinality(registered) -> registered] :
        \A i, j \in 1..Cardinality(registered) : o[i] = o[j] => i = j }

\* C10 as stated: the class discover_rules() returns for an id depends on the
\* set of registered classes only, not on the order the set is iterated in.
C10_SelectionIndependentOfIterationOrder ==
    regPc = "done" =>
      \A o \in IterationOrders : OrderRules(CollectInstances(o)) = ordered

\* the main thread is past Repo.discover
Discovered == runPc \in {"process", "render", "aborting", "raised", "returned"}

\* C12 as stated: a local clone is left out of the run as archived only if
\* it is archived on the remote; a clone that is not archived, the bulk
\* metadata listing it or not, is among the repositories the run audits.
C12_OnlyArchivedLeftOut ==
    Discovered => \A n \in localDirs : n \notin env.archived => InRepos(n)

\* calls the rule loop made on rule id after the applies_to call
CallsAfterApplies(r, id) ==
    {k \in 1..Len(log[r]) : log[r][k].rule = id /\ log[r][k].op # "applies_to"}

\* C13: a rule whose applies_to answered False for a repository is recorded
\* "skip" and nothing else, and neither its check nor its fix is called on
\* that repository.
C13_NotApplicableIsSkippedUncalled ==
    \A r \in NameSet : \A k \in 1..Len(log[r]) :
      (log[r][k].op = "applies_to" /\ log[r][k].out = "False") =>
        /\ CallsAfterApplies(r, log[r][k].rule) = {}
        /\ StatusesOf(r, log[r][k].rule) = {"skip"}

C13_Witness ==
    /\ runPc = "returned"
    /\ \E r \in NameSet :
         /\ InRepos(r)
         /\ ~_detect_ci_workflow(fs0[r])
         /\ HasLog(r, "README_CI_BADGE", "applies_to", "False")
         /\ StatusesOf(r, "README_CI_BADGE") = {"skip"}
         /\ HasLog(r, "REPO_DESCRIPTION", "check", "PASS")

\* the "check" values of one repository's entry in the JSON report (lines 302-316)
JsonChecks(results) == {results[i].rule_id : i \in 1..Len(results)}

\* C20 as stated: whatever happened while a repository was processed, its
\* entry in the JSON report has a check for every selected rule that applies
\* to the repository.
C20_JsonHasEveryApplicableRule ==
    (runPc = "returned" /\ json_output) =>
      \A i \in 1..Len(repo_results) :
        \A j \in 1..Len(rules) :
          RuleAppliesTo(rules[j], fs[repos[i]], cache[repos[i]])
            => rules[j].id \in JsonChecks(repo_results[i])

\* the children Repo.discover is to return, given which .git entries count
Qualifying(gitKinds) ==
    {n \in DirNames :
       /\ dDisk.root_is_dir
       /\ ChildIsDir(dDisk.children[n])
       /\ dDisk.children[n] \in gitKinds
       /\ (dCall.filter_pattern # ""
             => StrContains(NameChars(n), NameChars(dCall.filter_pattern)))
       /\ (dCall.skip_archived => ~IsArchived(dCall, dGh, n))}

\* the returned list holds exactly the set S, each once, in ascending path order
ReturnedExactly(S) ==
    /\ {dRepos[i] : i \in 1..Len(dRepos)} = S
    /\ \A i, j \in 1..Len(dRepos) :
         i < j => StrLess(NameChars(dRepos[i]), NameChars(dRepos[j]))

\* C11 as stated: Repo.discover returns, sorted by path, exactly the
\* children that are directories, contain a .git entry (of any kind),
\* contain the filter as a substring and are not archived.
C11_ReturnsChildrenWithGitEntry ==
    dPc = "returned" => ReturnedExactly(Qualifying({"gitfile", "repo"}))

\* C11 amended: Repo.discover returns, sorted by path, exactly the children
\* that are directories, contain a .git directory, contain the filter as a
\* substring when one is given and are not archived (by archived_names, or
\* by Repo.is_archived when none is given); the list is empty when the root
\* is not a directory or no child qualifies.
C11_ReturnsChildrenWithGitDirectory ==
    dPc = "returned" =>
      /\ ReturnedExactly(Qualifying({"repo"}))
      /\ (~dDisk.root_is_dir => dRepos = <<>>)

C11_Witness ==
    /\ dPc = "returned"
    /\ dRepos = <<"Zed", "lib">>
    /\ dCall.filter_pattern = ""
    /\ dDisk.children["app"] = "repo"
    /\ dCall.skip_archived
    /\ IsArchived(dCall, dGh, "app")

\* the rules whose verdict comes from GitHub
RemoteRules == {"WORKFLOWS_PASSING", "REPO_DESCRIPTION", "gitguard.REPO_DESCRIPTION"}

\* C14 as stated: a check of WORKFLOWS_PASSING or REPO_DESCRIPTION answers
\* FAIL only when the remote's data was obtained: gh authenticated and the
\* call to GitHub succeeded; otherwise it answers SKIP.
C14_FailOnlyOnRemoteData ==
    \A k \in 1..Len(uLog) :
      (uLog[k].op = "check" /\ uLog[k].rule \in RemoteRules /\ uLog[k].out = "FAIL")
        => (uEnv.ghAuth /\ uLog[k].io = "ok")

\* the rules driven that have a fix of their own
AutoFixable == UnitRules \ {"WORKFLOWS_PASSING"}

\* what the rule's check answers in the state a logged call started from
CheckBefore(c) == UnitCheck(c.rule, c.before, c.repo, uEnv, "ok").status

\* C15 as stated: a non-dry fix called in a state where the rule's check
\* answers PASS returns ALREADY_OK and leaves the repository unchanged.
C15_FixOnPassIsNoOp ==
    \A k \in 1..Len(uLog) :
      ( /\ uLog[k].op = "fix" /\ uLog[k].rule \in AutoFixable
        /\ ~uLog[k].dry /\ CheckBefore(uLog[k]) = "PASS" )
        => (uLog[k].out = "already_ok" /\ uLog[k].after = uLog[k].before)

\* C16 as stated: when the check answers FAIL and the non-dry fix returns
\* FIXED, the check called right after the fix answers PASS.
C16_FixedThenCheckPasses ==
    \A k \in 1..(Len(uLog) - 1) :
      ( /\ uLog[k].op = "fix" /\ uLog[k].rule \in AutoFixable
        /\ ~uLog[k].dry /\ uLog[k].out = "fixed"
        /\ CheckBefore(uLog[k]) = "FAIL"
        /\ uLog[k + 1].op = "check" /\ uLog[k + 1].io = "ok" )
        => uLog[k + 1].out = "PASS"

\* C17 as stated: the facts of the Repo object that rules consult reflect
\* the repository as the fixes left it: has_workflows says whether workflow
\* files exist now, the prefetched description is the description on GitHub.
C17_FactsReflectFixes ==
    /\ \A k \in 1..Len(uLog) :
         (uLog[k].op = "applies_to" /\ uLog[k].rule \in GatedOnWorkflows)
           => ((uLog[k].out = "True") <=> WorkflowFilesPresent(uLog[k].before.tree))
    /\ uRepo.prefetch.description # "None"
         => uRepo.prefetch.description = uWorld.remote.description

C19_FixStaysInsideDirectory ==
    \A k \in 1..Len(uLog) :
      uLog[k].op = "fix" =>
        /\ uLog[k].after.home = uLog[k].before.home
        /\ uLog[k].after.other = uLog[k].before.other
        /\ uLog[k].after.remote = uLog[k].before.remote

\* C19 amended: a fix never changes the user-level settings or another
\* repository; outside the repository's directory it changes one thing
\* only: the non-dry fix of REPO_DESCRIPTION sets the description of that
\* same repository on GitHub to the README tagline.
C19_FixStaysInsideRepository ==
    \A k \in 1..Len(uLog) :
      uLog[k].op = "fix" =>
        /\ uLog[k].after.home = uLog[k].before.home
        /\ uLog[k].after.other = uLog[k].before.other
        /\ uLog[k].after.remote.conclusions = uLog[k].before.remote.conclusions
        /\ uLog[k].after.remote.description # uLog[k].before.remote.description
             => /\ uLog[k].rule \in {"REPO_DESCRIPTION", "gitguard.REPO_DESCRIPTION"}
                /\ ~uLog[k].dry
                /\ uLog[k].out = "fixed"
                /\ uLog[k].after.remote.description = uLog[k].before.tree.tagline

C19_Witness ==
    \E k \in 1..Len(uLog) :
      /\ uLog[k].op = "fix" /\ uLog[k].rule = "SETTINGS_CLEAN"
      /\ ~uLog[k].dry /\ uLog[k].out = "fixed"
      /\ uLog[k].before.home.allow = {"Bash(ls:*)"}
      /\ uLog[k].after.tree.allow # uLog[k].before.tree.allow
      /\ ".claude/settings.local.json.bak" \in uLog[k].after.tree.files

\* the report of a run that rendered JSON
Report == JsonReport(repos, repo_results)
JsonRendered == runPc = "returned" /\ json_output /\ repo_results # <<>>

\* C21: in the JSON report every check status is passed, fixed or failed,
\* pass and skip both reading passed; total_checks is the number of check
\* entries and equals passed + failed; each repository's passed + failed is
\* its number of checks and the repositories' counters add up to the global
\* ones; pass_rate is 100 * passed / total_checks rounded to a nearest whole
\* percent, within 0..100, and 0 for a report without checks.
C21_JsonCountersConsistent ==
    /\ JsonReport(<<>>, <<>>).summary.pass_rate = 0
    /\ JsonRendered =>
         LET sm == Report.summary
             n == Len(Report.repos)
         IN  /\ \A k \in 1..n : \A i \in 1..Len(Report.repos[k].checks) :
                  LET st == repo_results[k][i].status
                      js == Report.repos[k].checks[i].status
                  IN  /\ js \in {"passed", "fixed", "failed"}
                      /\ st \in {"pass", "skip"} => js = "passed"
                      /\ st = "fixed" => js = "fixed"
                      /\ st \in Unresolved => js = "failed"
             /\ sm.total_checks = SumSeq([k \in 1..n |-> Len(Report.repos[k].checks)])
             /\ sm.total_checks = sm.passed + sm.failed
             /\ \A k \in 1..n :
                  Report.repos[k].summary.passed + Report.repos[k].summary.failed
                    = Len(Report.repos[k].checks)
             /\ sm.passed = SumSeq([k \in 1..n |-> Report.repos[k].summary.passed])
             /\ sm.failed = SumSeq([k \in 1..n |-> Report.repos[k].summary.failed])
             /\ sm.pass_rate \in 0..100
             /\ LET d == sm.pass_rate * sm.total_checks - 100 * sm.passed
                IN  2 * (IF d < 0 THEN -d ELSE d) <= sm.total_checks

C21_Witness ==
    /\ JsonRendered
    /\ Len(Report.repos) = 2
    /\ \E i \in 1..Len(repo_results[1]) : repo_results[1][i].status = "skip"
    /\ \E i \in 1..Len(repo_results[1]) : repo_results[1][i].status = "fixed"
    /\ \E i \in 1..Len(repo_results[2]) : repo_results[2][i].status = "manual"
    /\ \E i \in 1..Len(repo_results[2]) : repo_results[2][i].status = "fix_failed"
    /\ Report.summary.pass_rate * Report.summary.total_checks
         > 100 * Report.summary.passed

\* the rules of the run that inherit Rule.fix
NoAutoFix == {"README_EXISTS", "README_CI_BADGE"}

C22_State ==
    \A r \in NameSet :
      /\ (pc[r] = "fix" /\ rules[idx[r]].id \in NoAutoFix) =>
            /\ pending[r].check.status = "FAIL"
            /\ pending[r].check.message # ""
      /\ \A k \in 1..Len(log[r]) :
           (log[r][k].op = "fix" /\ log[r][k].rule \in NoAutoFix) =>
              /\ log[r][k].out = "manual"
              /\ StatusesOf(r, log[r][k].rule) = {"manual"}
              /\ (runPc = "returned" /\ InRepos(r)) => exitCode # 0

C22_Step ==
    \A r \in NameSet :
      (pc[r] = "fix" /\ rules[idx[r]].id \in NoAutoFix /\ pc'[r] # "fix") =>
         /\ rr'[r] = Append(rr[r], RuleResult(rules[idx[r]].id, "manual",
                                              pending[r].check.message))
         /\ fs' = fs
         /\ remoteDesc' = remoteDesc
         /\ cache' = cache

\* C22: a failing rule without an auto-fix of its own ends with status
\* "manual" and the message of its failed check, its fix leaves the
\* repository as it was, and the run that holds it returns non-zero.
C22_NoAutoFixEndsManual == [](C22_State) /\ [][C22_Step]_vars

\* a returned run in which README_EXISTS ended manual and nothing failed
C22_Witness ==
    /\ runPc = "returned"
    /\ exitCode # 0
    /\ \E r \in NameSet :
         /\ InRepos(r)
         /\ HasLog(r, "README_EXISTS", "fix", "manual")
         /\ \E i \in 1..Len(rr[r]) :
              rr[r][i] = RuleResult("README_EXISTS", "manual", "README.md not found")
    /\ \A r \in NameSet : \A i \in 1..Len(rr[r]) :
         rr[r][i].status \in {"pass", "skip", "fixed", "manual"}

\* C23: with a pyproject.toml that is present but malformed or unreadable,
\* every manifest rule evaluated ends as a failure with a message; none is
\* reported skip.
C23_BrokenManifestNeverSkipped ==
    pyproject.state \in {"unreadable", "malformed"} =>
       \A i \in 1..Len(mResults) :
          /\ mResults[i].status \in Unresolved
          /\ mResults[i].message # ""

\* C24: a timeout of a git subprocess inside a rule (here the listing or the
\* `git rm --cached` of TRACKED_IGNORED) never escapes the adapter: the
\* repository gets no INTERNAL result and its remaining rules are evaluated.
C24_TimeoutNeverEscapes ==
    \A r \in NameSet :
      (\E k \in 1..Len(log[r]) :
          log[r][k].rule = "TRACKED_IGNORED" /\ log[r][k].out = "RAISE") =>
         /\ \A i \in 1..Len(rr[r]) : rr[r][i].rule_id # "INTERNAL"
         /\ pc[r] = "done" => Len(rr[r]) = Len(rules)

\* C25: the list discover_rules() returns for all the rule classes of the
\* package starts with DEFAULT_BRANCH, then LICENSE_EXISTS, and ends with
\* REPO_DESCRIPTION.
C25_PackageOrderEndsWithRepoDescription ==
    (regPc = "done" /\ registered = PackageClasses) =>
       /\ ordered[1].id = "DEFAULT_BRANCH"
       /\ ordered[2].id = "LICENSE_EXISTS"
       /\ ordered[Len(ordered)].id = "REPO_DESCRIPTION"

\* C26: at most min(8, repositories) repositories are processed at a time,
\* at most min(8, missing repositories) clones run at a time, at most 8
\* prefetches run at a time, and no two of the three pools have work running
\* at the same time: a phase is over before the next one starts.
C26_PoolsBoundedAndSequential ==
    /\ poolRunning["process"] <= Min(8, poolInput.repos)
    /\ poolRunning["clone"] <= Min(8, poolInput.to_clone)
    /\ poolRunning["prefetch"] <= 8
    /\ \A p, q \in Pools :
         (p # q /\ poolRunning[p] + poolQueued[p] > 0) =>
            poolRunning[q] + poolQueued[q] = 0
    /\ poolPc = "returned" => \A p \in Pools : Joined(p)

\* eight repositories in process while a ninth waits, after clones and
\* prefetches ran
C26_Witness ==
    /\ poolRunning["process"] = 8
    /\ poolQueued["process"] > 0
    /\ poolSize["clone"] > 0
    /\ poolInput.wf_repos > 0

C27_State ==
    \A r \in NameSet :
      /\ \A k \in 1..Len(log[r]) :
           /\ log[r][k].op = "fetch_all" =>
                /\ ~dry_run
                /\ k = 2
                /\ log[r][1] = LogEntry("", "is_dirty", "False")
                /\ r \in fetched
           /\ (log[r][k].rule # "" /\ ~dry_run /\ log[r][1] = LogEntry("", "is_dirty", "False"))
                => (k > 2 /\ log[r][2].op = "fetch_all")
           /\ log[r][k].op = "is_dirty" => (k = 1 /\ ~dry_run)
      /\ r \in fetched => (Len(log[r]) >= 2 /\ log[r][2].op = "fetch_all")

C27_Step ==
    \A r \in NameSet :
      /\ (pc[r] = "probe" /\ pc'[r] \notin {"probe", "raised"}) =>
            pc'[r] = (IF is_dirty(fs[r]) THEN "apply" ELSE "fetch")
      /\ (pc[r] = "fetch" /\ pc'[r] # "fetch") =>
            /\ pc'[r] = "apply"
            /\ rr' = rr /\ idx' = idx /\ pending' = pending
            /\ fs' = fs /\ cache' = cache /\ remoteDesc' = remoteDesc
            /\ exitCode' = exitCode /\ runPc' = runPc

\* C27: git fetch is attempted on a repository exactly when the run is not a
\* dry run and the repository has no uncommitted changes, before any rule of
\* that repository is evaluated, and whether it succeeds or raises it leaves
\* the results and the exit code as they were.
C27_FetchOnlyCleanAndHarmless == [](C27_State) /\ [][C27_Step]_vars

\* a returned run in which one repository's fetch raised and its rules were
\* all evaluated without an INTERNAL result, and another was dirty
C27_Witness ==
    /\ runPc = "returned"
    /\ \E r \in NameSet :
         /\ HasLog(r, "", "fetch_all", "raise")
         /\ Len(rr[r]) = Len(rules)
         /\ \A i \in 1..Len(rr[r]) : rr[r][i].rule_id # "INTERNAL"
    /\ \E r \in NameSet : HasLog(r, "", "is_dirty", "True") /\ r \notin fetched

RECURSIVE IsSubseq(_, _)
\* the lines of a occur in b, in the same order
IsSubseq(a, b) ==
    IF a = <<>> THEN TRUE
    ELSE IF b = <<>> THEN FALSE
    ELSE IF Head(a) = Head(b) THEN IsSubseq(Tail(a), Tail(b))
    ELSE IsSubseq(a, Tail(b))

NonBlank(lines) == SelectSeq(lines, LAMBDA line : line # "")

\* a fix that wrote the file
GitignoreWritten == gPc = "done" /\ gOutcome.out = "fixed" /\ ~gOutcome.dry

\* the managed block the fix writes
WrittenBlock == _build_managed_block(IF gGlobal # <<>> THEN gGlobal ELSE EssentialList)

\* C28 as stated: after the fix every line the user wrote, above the managed
\* header or below the managed rules, is still in the file and in the same
\* order, and a file that was absent holds exactly the managed block.
C28_UserLinesAroundBlockKept ==
    GitignoreWritten =>
       /\ IsSubseq(NonBlank(gAuthored.before \o gAuthored.after), gitignore.lines)
       /\ ~gOutcome.before.exists => gitignore.lines = WrittenBlock

\* C28, amended: after the fix the lines the user wrote above the managed
\* header are still there, in order, at the top of the file; everything from
\* the header to the end of the file is the managed block and nothing else;
\* a file that was absent holds exactly the managed block.
C28_LinesAboveHeaderKept ==
    GitignoreWritten =>
       LET h == FirstHeader(gitignore.lines) IN
       /\ h > 0
       /\ SubSeq(gitignore.lines, h, Len(gitignore.lines)) = WrittenBlock
       /\ IsSubseq(NonBlank(gAuthored.before), SubSeq(gitignore.lines, 1, h - 1))
       /\ NonBlank(SubSeq(gitignore.lines, 1, h - 1)) = NonBlank(gAuthored.before)
       /\ ~gOutcome.before.exists => gitignore.lines = WrittenBlock

\* a fix that rewrote a file holding a user's pattern above the header and
\* another below the managed rules
C28_Witness ==
    /\ GitignoreWritten
    /\ gOutcome.before.exists
    /\ "dist/" \in Range(gAuthored.before)
    /\ "dist/" \in Range(gAuthored.after)
    /\ FirstHeader(gOutcome.before.lines) > 0

C29_State ==
    \A r \in NameSet :
      /\ fs[r].tracked # {} =>
           LET ret == TrackedIgnoredFix(fs[r], remoteDesc[r], FALSE, "fail") IN
           /\ ~ret.raised
           /\ ret.out.status = "failed"
           /\ ret.st = fs[r]
      /\ ~dry_run =>
           \A k \in 1..(Len(log[r]) - 1) :
              (log[r][k] = LogEntry("TRACKED_IGNORED", "fix", "fixed")) =>
                 /\ log[r][k + 1].op = "verify"
                 /\ log[r][k + 1].rule = "TRACKED_IGNORED"
                 /\ log[r][k + 1].out \in {"PASS", "RAISE"}

C29_Step ==
    \A r \in NameSet :
      ( /\ pc[r] = "fix" /\ rules[idx[r]].id = "TRACKED_IGNORED"
        /\ ~dry_run /\ pc'[r] # "fix" ) =>
         LET out == log'[r][Len(log'[r])].out IN
         /\ out = "fixed" =>
              /\ fs[r].tracked # {}
              /\ fs'[r].tracked = {}
              /\ fs'[r].files = fs[r].files
              /\ fs'[r] = [fs[r] EXCEPT !.tracked = {}, !.dirty = TRUE]
         /\ out # "fixed" => fs'[r] = fs[r]

\* C29: TRACKED_IGNORED's fix, when it is applied and returns FIXED, leaves
\* every file on disk as it was and none of the tracked-and-ignored files in
\* the index, and the re-check that answers gives PASS; when `git rm
\* --cached` exits non-zero the outcome is FAILED and the index is as before.
C29_UntracksNeverDeletes == [](C29_State) /\ [][C29_Step]_vars

\* .env was tracked and ignored; the fix untracked it, the re-check passed,
\* and .env is still on disk
C29_Witness ==
    \E r \in NameSet :
      /\ ~dry_run
      /\ HasLog(r, "TRACKED_IGNORED", "fix", "fixed")
      /\ HasLog(r, "TRACKED_IGNORED", "verify", "PASS")
      /\ ".env" \in fs0[r].tracked
      /\ ".env" \in fs[r].files
      /\ fs[r].tracked = {}

\* the conclusion map the check of the finished call worked on
ConclusionsUsed ==
    IF wPrefetch.set THEN wPrefetch.value ELSE WorkflowConclusions(wRemote, wResult.io)

\* C30: with gh authenticated WORKFLOWS_PASSING answers SKIP for an empty
\* conclusion map, PASS for a non-empty one whose conclusions are all
\* "success", FAIL otherwise with a message that names exactly the workflows
\* whose conclusion is not "success", each with its conclusion; prefetched
\* conclusions, when set, are used and no remote call is made.
C30_WorkflowsPassingVerdict ==
    (wPc = "done" /\ wAuth) =>
       LET map == ConclusionsUsed
           res == wResult.result
           named == {res.details[i][1] : i \in 1..Len(res.details)}
       IN  /\ res.status = "SKIP" <=> map = NoConclusions
           /\ res.status = "PASS" <=>
                (map # NoConclusions /\ \A n \in DOMAIN map : map[n] = "success")
           /\ res.status \in {"SKIP", "PASS", "FAIL"}
           /\ res.status = "FAIL" =>
                /\ named = {n \in DOMAIN map : map[n] # "success"}
                /\ \A i \in 1..Len(res.details) :
                     res.details[i][2] = map[res.details[i][1]]
                /\ \A i, j \in 1..Len(res.details) :
                     res.details[i][1] = res.details[j][1] => i = j
           /\ res.status # "FAIL" => res.details = <<>>
           /\ wPrefetch.set => ~res.live
           /\ ~wPrefetch.set => res.live

\* prefetched conclusions with one success and one failure, a remote that
\* has changed since, and a FAIL that names only the failed workflow
C30_Witness ==
    /\ wPc = "done" /\ wAuth
    /\ wPrefetch.set
    /\ wPrefetch.value = [n \in {"CI", "PII Scan"} |-> IF n = "CI" THEN "success" ELSE "failure"]
    /\ wRemote # wPrefetch.value
    /\ wResult.result.status = "FAIL"
    /\ wResult.result.details = << <<"PII Scan", "failure">> >>
    /\ ~wResult.result.live

\* update calls whose increment is stored and which have not returned yet
Incremented == Cardinality({t \in BarTasks : At(t, "upd_draw")})

C31_State ==
    pbPc = "run" =>
       /\ pbStep = pbCalls + Incremented
       /\ pbLock = 0 => pbStep = pbCalls
       /\ pbStep <= pbTotal
       /\ pbTotal = pbInput.repos * pbInput.rules

C31_Step ==
    (\E t \in BarTasks : PhaseAcquire(t) \/ PhaseDraw(t)) => pbStep' = pbStep

\* C31: under any interleaving of the workers' update and set_phase calls,
\* step equals the number of update calls made (no increment is lost),
\* set_phase leaves step unchanged, and step never exceeds
\* total = repositories x rules.
C31_ProgressStepCountsUpdates == [](C31_State) /\ [][C31_Step]_vars

\* two workers have reported every rule, with set_phase calls in between
C31_Witness ==
    /\ pbPc = "run"
    /\ pbInput.repos >= 2 /\ pbInput.rules >= 2
    /\ \A t \in BarTasks : At(t, "done")
    /\ pbStep = pbTotal
    /\ pbCalls = pbTotal
    /\ pbPhased >= 2

\* the children Repo.discover looks at once the archive test is left aside
Candidates ==
    {n \in DirNames :
       /\ dDisk.root_is_dir
       /\ dDisk.children[n] = "repo"
       /\ (dCall.filter_pattern # ""
             => StrContains(NameChars(n), NameChars(dCall.filter_pattern)))}

Returned == {dRepos[i] : i \in 1..Len(dRepos)}

\* C32: Repo.discover asks the remote about a repository only when
\* skip_archived is true and no archived_names set is supplied; while
\* archives are skipped and archived_names is given it leaves out exactly the
\* candidates named in the set and asks the remote nothing; with
\* skip_archived false it returns the archived repositories too, again
\* without asking.
C32_RemoteArchiveQueryOnlyWithoutNames ==
    dPc = "returned" =>
      /\ dQueried # {} => (dCall.skip_archived /\ ~dCall.archived_names.given)
      /\ (dCall.skip_archived /\ dCall.archived_names.given) =>
            /\ Returned = Candidates \ dCall.archived_names.names
            /\ dQueried = {}
      /\ ~dCall.skip_archived =>
            /\ Returned = Candidates
            /\ dQueried = {}
      /\ (dCall.skip_archived /\ ~dCall.archived_names.given) =>
            /\ dQueried = Candidates
            /\ Returned = {n \in Candidates : ~(dGh.ok /\ n \in dGh.archived)}

\* a supplied set leaves out "app", which the remote does not call archived,
\* and keeps "Zed" and "lib", which it does; nothing was asked
C32_Witness ==
    /\ dPc = "returned"
    /\ dCall.skip_archived /\ dCall.archived_names.given
    /\ dCall.archived_names.names = {"app"}
    /\ Candidates = {"Zed", "app", "lib"}
    /\ dGh.ok /\ dGh.archived = {"Zed", "lib"}
    /\ dRepos = <<"Zed", "lib">>
    /\ dQueried = {}

\* the positions of log[r] at which rule id was checked or re-checked
ChecksOf(r, id) ==
    {k \in 1..Len(log[r]) : log[r][k].rule = id /\ log[r][k].op \in {"check", "verify"}}

\* C33 as stated: in a non-dry run a pair is recorded "pass" or "fixed" only
\* if the last check executed for the pair returned PASS; a pair whose only
\* check returned FAIL is never recorded "pass" on the strength of a fix that
\* answered ALREADY_OK.
C33_PassMeansLastCheckPassed ==
    ~dry_run =>
      \A r \in NameSet : \A i \in 1..Len(rr[r]) :
        rr[r][i].status \in {"pass", "fixed"} =>
          /\ ChecksOf(r, rr[r][i].rule_id) # {}
          /\ LET last == CHOOSE k \in ChecksOf(r, rr[r][i].rule_id) :
                            \A j \in ChecksOf(r, rr[r][i].rule_id) : j <= k
             IN  log[r][last].out = "PASS"

\* the main thread holds the list the renderers get
Gathered == runPc \in {"render", "returned"}

\* C34: the list of RepoResults handed to the renderers has one entry per
\* discovered repository, the i-th entry being what the worker built for
\* the i-th repository of the discovery order, whichever worker finished
\* first; no repository is missing and none appears twice.
C34_ResultsInDiscoveryOrder ==
    Gathered =>
      /\ Len(repo_results) = Len(repos)
      /\ \A i \in 1..Len(repos) : repo_results[i] = rr[repos[i]]
      /\ \A i, j \in 1..Len(repos) : repos[i] = repos[j] => i = j
      /\ \A i \in 1..Len(repos) : pc[repos[i]] = "done"
      /\ \A n \in NameSet : InRepos(n) \/ rr[n] = <<>>

\* two repositories whose results differ, gathered
C34_Witness ==
    /\ runPc = "render"
    /\ Len(repos) = 2
    /\ repo_results[1] # repo_results[2]
    /\ repo_results[1] # <<>> /\ repo_results[2] # <<>>

\* C35 as stated: with json_output=True, run prints exactly one JSON report
\* to stdout on every path that returns, the path on which no repository is
\* discovered included (a report with repos_count 0).
C35_JsonAlwaysOneReport ==
    (runPc = "returned" /\ json_output) =>
       /\ Len(stdout) = 1
       /\ stdout[1].repos_count = Len(repos)

\* how often name n occurs in list
Occurrences(list, n) == Cardinality({i \in 1..Len(list) : list[i] = n})

\* C36: when the clone phase ends every name of to_clone occurs exactly
\* once in cloned and clone_errors taken together, whatever the
\* interleaving of the clone workers, and the lists hold no other name; a
\* name is in cloned exactly when git clone succeeded for it; in a dry run
\* every name is in cloned, in the order of to_clone, and nothing was cloned.
C36_EveryCloneRecordedOnce ==
    cPc = "ended" =>
      /\ \A n \in Range(CloneNames) :
           Occurrences(cCloned, n) + Occurrences(cErrors, n)
             = IF n \in ToClone THEN 1 ELSE 0
      /\ ~cDry => \A n \in ToClone : Occurrences(cCloned, n) = 1 <=> n \in cDisk
      /\ cDry => (cCloned = cToClone /\ cErrors = <<>> /\ cDisk = {})
      /\ cLock = ""

\* three workers: the last name was cloned first, one clone failed and one
\* raised
C36_Witness ==
    /\ cPc = "ended" /\ ~cDry
    /\ cToClone = CloneNames
    /\ cCloned = <<"gamma">>
    /\ cErrors = <<"beta", "alpha">>

\* the calls of log[r] in which a rule raised
RuleRaises(r) == {k \in 1..Len(log[r]) : log[r][k].rule # "" /\ log[r][k].out = "RAISE"}

C37_State ==
    \A r \in NameSet :
      /\ \A i \in 1..Len(rr[r]) :
           rr[r][i].rule_id = "INTERNAL" =>
             /\ i = Len(rr[r])
             /\ rr[r][i].status = "failed"
             /\ pc[r] = "done"
      /\ \A k \in RuleRaises(r) :
           LET at == RuleIndex(log[r][k].rule) IN
           /\ k = Len(log[r])
           /\ pc[r] = "done"
           /\ Len(rr[r]) = at
           /\ rr[r][at].rule_id = "INTERNAL"
           /\ \A i \in 1..(at - 1) : rr[r][i].rule_id = rules[i].id

C37_Step ==
    \A r \in NameSet :
      (Len(rr'[r]) > 0 /\ rr'[r] # rr[r] /\ rr'[r][Len(rr'[r])].rule_id = "INTERNAL") =>
         /\ Len(rr'[r]) = Len(rr[r]) + 1
         /\ SubSeq(rr'[r], 1, Len(rr[r])) = rr[r]

\* C37: when a rule raises while a repository is evaluated, the RepoResult
\* keeps the results of the rules evaluated before it, gets one INTERNAL
\* failed result as its last entry, and no later rule is evaluated for the
\* repository; a RepoResult holds at most one INTERNAL entry.
C37_RaiseEndsRepoWithOneInternal == [](C37_State) /\ [][C37_Step]_vars

\* a rule that is not the first one raised after earlier rules were recorded
C37_Witness ==
    \E r \in NameSet :
      /\ RuleRaises(r) # {}
      /\ Len(rr[r]) >= 3
      /\ rr[r][Len(rr[r])].rule_id = "INTERNAL"
      /\ rr[r][1].rule_id # "INTERNAL"
      /\ Len(rr[r]) < Len(rules)

\* the status the run of `mode` recorded for rule id, "" when none
SoloStatus(mode, id) ==
    LET at == {i \in 1..Len(sRun[mode].results) : sRun[mode].results[i].rule_id = id}
    IN  IF at = {} THEN "" ELSE sRun[mode].results[CHOOSE i \in at : TRUE].status

\* in the real run a fix recorded "fixed" created or edited a file
FixApplied ==
    /\ \E i \in 1..Len(sRun["real"].results) : sRun["real"].results[i].status = "fixed"
    /\ sRun["real"].st.files # sStart.files \/ sRun["real"].st.licRef # sStart.licRef

\* C38 as stated: PENDING_COMMITS runs after all file-creating rules, so in
\* a non-dry run in which a fix created or modified a file in a repository
\* that was clean, PENDING_COMMITS reports the uncommitted changes as
\* "manual" and the run exits non-zero.
C38_FixedFilesEndAsPendingCommits ==
    (sPc = "run" /\ SoloDone("real") /\ ~sStart.dirty /\ FixApplied) =>
       /\ SoloStatus("real", "PENDING_COMMITS") = "manual"
       /\ SoloExit("real") # 0

\* the rules the run of `mode` left unresolved
SoloUnresolved(mode) ==
    {sRun[mode].results[i].rule_id : i \in {j \in 1..Len(sRun[mode].results) :
                                              sRun[mode].results[j].status \in Unresolved}}

\* C39 as stated: from the same working tree, with every external call
\* succeeding, the rules the dry run reports as unresolved are the rules the
\* real run leaves unresolved; README_LICENSE, whose fix needs the LICENSE
\* that LICENSE_EXISTS creates, is classified alike in both modes.
C39_DryRunPredictsRealRun ==
    (sPc = "run" /\ SoloDone("dry") /\ SoloDone("real")
       /\ sRun["dry"].faults = 0 /\ sRun["real"].faults = 0) =>
       /\ SoloUnresolved("dry") = SoloUnresolved("real")
       /\ (SoloStatus("dry", "README_LICENSE") \in Unresolved)
            = (SoloStatus("real", "README_LICENSE") \in Unresolved)

====
